---- MODULE Spec2Model ----
(***************************************************************************)
(* The ledger engine of CryptoKernel (src/kernel/blockchain.cpp): the      *)
(* persisted tables, the in-memory mempool, transaction and block          *)
(* validation, block application, reversal and chain reorganisation.       *)
(*                                                                         *)
(* Ids are hashes of contents, so an id stands for its content: the blocks,*)
(* transactions, inputs and outputs that callers can submit are drawn from *)
(* a finite universe given by the tables below.                            *)
(***************************************************************************)
EXTENDS Integers, Sequences, FiniteSets, TLC

(***************************************************************************)
(* uint64_t arithmetic.  Output values are multiples of 2^60, written in   *)
(* units of 2^60, so that 2^64 is Uint64Units units and the sums of the    *)
(* code wrap exactly as they do on uint64_t.                               *)
(***************************************************************************)
Uint64Units == 16

AddU64(a, b) == (a + b) % Uint64Units

SubU64(a, b) == ((a - b) + Uint64Units) % Uint64Units

(***************************************************************************)
(* The universe of submitted data.                                         *)
(***************************************************************************)
BlockIds == 1..16

TxIds == 1..16

CoinbaseIds == {100 + b : b \in BlockIds}

AllTxIds == TxIds \cup CoinbaseIds

InputIds == 1..18

OutIds == (1..16) \cup {100 + b : b \in BlockIds} \cup {211}

PubKeys == {1, 2}

\* output(value, nonce, data): value in units of 2^60
OutValue(o) ==
  CASE o = 1 -> 3
    [] o = 2 -> 3
    [] o = 3 -> 2
    [] o = 4 -> 8
    [] o = 5 -> 9
    [] o = 6 -> 6
    [] o = 7 -> 1
    [] o \in {10, 11, 12} -> 4
    [] o = 13 -> 3
    [] o = 14 -> 0
    [] o = 111 -> 8
    [] o = 211 -> 8
    [] OTHER -> 5

\* data["publicKey"] of an output; 0 when the data carries none
OutPk(o) ==
  CASE o \in {1, 2, 4, 5, 6, 7} -> 2
    [] o = 3 -> 0
    [] OTHER -> 1

\* whether the data of an output carries a "contract"
OutContract(o) == o = 7

Out(o) == [id |-> o, value |-> OutValue(o), pk |-> OutPk(o), ct |-> OutContract(o)]

\* input(outputId, data): the output an input spends
InOutputId(i) ==
  CASE i \in {3, 11} -> 1
    [] i \in {6, 15, 16} -> 2
    [] i = 12 -> 7
    [] OTHER -> 101

\* data["signature"] of an input: 0 = none, 1 = does not verify,
\* 2 = the owner's signature over outputId + outputSetId of its transaction
InSig(i) ==
  CASE i \in {7, 12} -> 0
    [] i \in {13, 14, 17} -> 1
    [] OTHER -> 2

In(i) == [id |-> i, outputId |-> InOutputId(i), sig |-> InSig(i)]

TxIns(t) ==
  CASE t = 1 -> {1}
    [] t = 2 -> {2}
    [] t = 3 -> {3}
    [] t = 4 -> {4}
    [] t = 5 -> {5}
    [] t = 6 -> {1}
    [] t = 7 -> {6}
    [] t \in 8..14 -> {t - 1}
    [] t = 15 -> {14, 15}
    [] t = 16 -> {16, 17}
    [] t = 115 -> {18}
    [] OTHER -> {}

TxOuts(t) ==
  CASE t = 1 -> {1, 7}
    [] t = 2 -> {2, 7}
    [] t = 3 -> {3}
    [] t = 4 -> {4, 5}
    [] t = 5 -> {6}
    [] t = 6 -> {8}
    [] t = 7 -> {7}
    [] t \in 8..13 -> {t + 1}
    [] t = 14 -> {101}
    [] t = 15 -> {15}
    [] t = 16 -> {16}
    [] t = 111 -> {111, 211}
    [] OTHER -> {t}

\* transaction::size(), in bytes
TxSize(t) ==
  CASE t = 3 -> 2000000
    [] t = 4 -> 2089447
    [] t = 7 -> 1000
    [] t = 13 -> 2089446
    [] OTHER -> 200 + 50 * (Cardinality(TxIns(t)) + Cardinality(TxOuts(t)))

Tx(t) ==
  [id |-> t,
   ins |-> {In(i) : i \in TxIns(t)},
   outs |-> {Out(o) : o \in TxOuts(t)},
   cb |-> t \in CoinbaseIds,
   size |-> TxSize(t)]

BlockPrev(b) ==
  CASE b \in {1, 16} -> 0
    [] b \in {2, 4, 7, 8, 9, 10, 11, 14, 15} -> 1
    [] b \in {3, 13} -> 2
    [] b \in {5, 6, 12} -> 4

BlockTxs(b) ==
  CASE b = 2 -> {1}
    [] b = 3 -> {3}
    [] b = 5 -> {2}
    [] b = 6 -> {5}
    [] b = 7 -> {1, 2}
    [] b = 8 -> {4}
    [] b = 13 -> {2, 3}
    [] b = 14 -> {1, 2, 4}
    [] OTHER -> {}

Block(b) ==
  [id |-> b,
   prev |-> BlockPrev(b),
   cb |-> Tx(100 + b),
   txs |-> {Tx(t) : t \in BlockTxs(b)}]

(***************************************************************************)
(* Stored documents.  A table maps a key to a Json value; obj is isObject()*)
(* of that value.  A key that was never written, an erased key and a key   *)
(* holding Json null all read as a document with obj = FALSE, and          *)
(* dbOutput / dbBlock built from such a document hold zeroes.              *)
(***************************************************************************)
NoOutput == [obj |-> FALSE, id |-> 0, value |-> 0, pk |-> 0, ct |-> FALSE, ctx |-> 0]

NoTx == [obj |-> FALSE, block |-> 0, cb |-> FALSE]

NoBlock == [obj |-> FALSE, id |-> 0, height |-> 0]

Heights == 1..Cardinality(BlockIds)

Get(tbl, k, none) == IF k \in DOMAIN tbl THEN tbl[k] ELSE none

\* keys outside the universe are never read by any submitted data
Put(tbl, k, v) == IF k \in DOMAIN tbl THEN [tbl EXCEPT ![k] = v] ELSE tbl

Remove(seq, x) == SelectSeq(seq, LAMBDA e : e # x)

\* Mempool::Mempool() and the tables opened by the Blockchain constructor
EmptyMempool == [txs |-> <<>>, inputs |-> <<>>, outputs |-> <<>>, bytes |-> 0]

EmptyStore ==
  [blocks |-> [b \in BlockIds |-> NoBlock],
   tip |-> NoBlock,
   heights |-> [h \in Heights |-> 0],
   candidates |-> [b \in BlockIds |-> NoBlock],
   transactions |-> [t \in AllTxIds |-> NoTx],
   utxos |-> [o \in OutIds |-> NoOutput],
   stxos |-> [o \in OutIds |-> NoOutput],
   utxoIdx |-> [k \in PubKeys |-> <<>>],
   stxoIdx |-> [k \in PubKeys |-> <<>>],
   inputs |-> [i \in InputIds |-> FALSE]]

StoreFields ==
  {"blocks", "tip", "heights", "candidates", "transactions", "utxos", "stxos",
   "utxoIdx", "stxoIdx", "inputs"}

\* The state an operation works on: the open store transaction, the mempool
\* and whether a NotFoundException is propagating.
Working(st, mp) ==
  [f \in StoreFields \cup {"mp", "exc"} |->
     IF f = "mp" THEN mp ELSE IF f = "exc" THEN FALSE ELSE st[f]]

StoreOf(S) == [f \in StoreFields |-> S[f]]

RECURSIVE OrderById(_)
\* iteration order of std::set<transaction>, std::set<input>, std::set<output>
OrderById(S) ==
  IF S = {} THEN <<>>
  ELSE LET m == CHOOSE x \in S : \A y \in S : x.id <= y.id
       IN <<m>> \o OrderById(S \ {m})

(***************************************************************************)
(* verifyTransaction                                                       *)
(***************************************************************************)
VOk == [ok |-> TRUE, perm |-> FALSE]

VFF == [ok |-> FALSE, perm |-> FALSE]

VFT == [ok |-> FALSE, perm |-> TRUE]

RECURSIVE SumValues(_)
SumValues(seq) ==
  IF seq = <<>> THEN 0 ELSE AddU64(Head(seq).value, SumValues(Tail(seq)))

\* tx.getOutputSetId(): the hash of the ordered output ids
OutputSetId(tx) == {o.id : o \in tx.outs}

\* the output set the signature of a submitted input was made over
SignedOutputSet(i) ==
  IF \E t \in AllTxIds : i \in TxIns(t)
  THEN TxOuts(CHOOSE t \in AllTxIds :
                i \in TxIns(t) /\ \A u \in AllTxIds : i \in TxIns(u) => t <= u)
  ELSE {}

\* crypto.verify(out.getId() + outputHash, signature) under the output's key
SigVerifies(inp, out, tx) ==
  /\ inp.sig = 2
  /\ out.id = inp.outputId
  /\ out.pk = OutPk(inp.outputId)
  /\ OutputSetId(tx) = SignedOutputSet(inp.id)

RECURSIVE VerifyInputs(_, _, _, _)
\* the loop over tx.getInputs(): res is "ok", "ff" or "ft"
VerifyInputs(S, tx, seq, total) ==
  IF seq = <<>> THEN [res |-> "ok", total |-> total]
  ELSE LET inp == Head(seq)
           out == Get(S.utxos, inp.outputId, NoOutput)
       IN IF ~out.obj THEN [res |-> "ff", total |-> total]
          ELSE IF out.pk # 0 /\ ~out.ct /\ inp.sig = 0
               THEN [res |-> "ft", total |-> total]
          ELSE IF out.pk # 0 /\ ~out.ct /\ ~SigVerifies(inp, out, tx)
               THEN [res |-> "ft", total |-> total]
          ELSE VerifyInputs(S, tx, Tail(seq), AddU64(total, out.value))

\* Storage::toString(data).size() of an input's and an output's data
InDataSize(inp) == IF inp.sig = 0 THEN 5 ELSE 110

OutDataSize(out) == IF out.pk = 0 THEN 5 ELSE 70

RECURSIVE InputsFee(_)
InputsFee(seq) ==
  IF seq = <<>> THEN 0 ELSE InDataSize(Head(seq)) * 100 + InputsFee(Tail(seq))

RECURSIVE OutputsFee(_)
OutputsFee(seq) ==
  IF seq = <<>> THEN 0 ELSE OutDataSize(Head(seq)) * 100 + OutputsFee(Tail(seq))

getTransactionFee(tx) == InputsFee(OrderById(tx.ins)) + OutputsFee(OrderById(tx.outs))

\* fee < getTransactionFee(tx) * 0.5, fee being in units of 2^60 and half the
\* size fee being below 2^60
FeeTooLow(fee, tx) == fee = 0 /\ getTransactionFee(tx) > 0

\* lvm.evaluateValid(dbTransaction, tx) and consensus->verifyTransaction
ScriptValid(tx) == tx.id # 9

ConsensusVerifyTransaction(tx) == tx.id # 10

\* the checks that follow the loop over the inputs, r being what the loop left
CheckTotals(tx, coinbaseTx, outputTotal, r) ==
  IF r.res = "ff" THEN VFF
  ELSE IF r.res = "ft" THEN VFT
  ELSE IF ~coinbaseTx /\ outputTotal > r.total THEN VFT
  ELSE IF ~coinbaseTx /\ FeeTooLow(SubU64(r.total, outputTotal), tx) THEN VFT
  ELSE IF ~ScriptValid(tx) THEN VFT
  ELSE IF ~ConsensusVerifyTransaction(tx) THEN VFT
  ELSE VOk

verifyTransaction(S, tx, coinbaseTx) ==
  IF Get(S.transactions, tx.id, NoTx).obj THEN VFF
  ELSE IF \E out \in tx.outs :
            Get(S.utxos, out.id, NoOutput).obj \/ Get(S.stxos, out.id, NoOutput).obj
       THEN VFF
  ELSE CheckTotals(tx, coinbaseTx, SumValues(OrderById(tx.outs)),
                   VerifyInputs(S, tx, OrderById(tx.ins), 0))

(***************************************************************************)
(* Mempool                                                                 *)
(***************************************************************************)
MapInsert(m, k, v) == IF k \in DOMAIN m THEN m ELSE m @@ (k :> v)

MapErase(m, k) == [x \in DOMAIN m \ {k} |-> m[x]]

RECURSIVE IndexInputs(_, _, _)
IndexInputs(mp, seq, txid) ==
  IF seq = <<>> THEN mp
  ELSE IndexInputs([mp EXCEPT !.inputs = MapInsert(@, Head(seq).id, txid),
                              !.outputs = MapInsert(@, Head(seq).outputId, txid)],
                   Tail(seq), txid)

RECURSIVE IndexOutputs(_, _, _)
IndexOutputs(mp, seq, txid) ==
  IF seq = <<>> THEN mp
  ELSE IndexOutputs([mp EXCEPT !.outputs = MapInsert(@, Head(seq).id, txid)],
                    Tail(seq), txid)

\* an insertion that looks at the transaction's inputs only
InsertConflictInputsOnly(mp, tx) ==
  \/ tx.id \in DOMAIN mp.txs
  \/ \E inp \in tx.ins : inp.id \in DOMAIN mp.inputs \/ inp.outputId \in DOMAIN mp.outputs

\* Mempool::insert: whether the insertion is refused
InsertConflict(mp, tx) ==
  \/ tx.id \in DOMAIN mp.txs
  \/ \E inp \in tx.ins : inp.id \in DOMAIN mp.inputs \/ inp.outputId \in DOMAIN mp.outputs
  \/ \E out \in tx.outs : out.id \in DOMAIN mp.outputs

\* Mempool::insert: the mempool after the call (unchanged when it is refused)
MempoolInsert(mp, tx) ==
  IF InsertConflict(mp, tx) THEN mp
  ELSE LET m1 == [mp EXCEPT !.txs = MapInsert(@, tx.id, tx), !.bytes = @ + tx.size]
           m2 == IndexInputs(m1, OrderById(tx.ins), tx.id)
       IN IndexOutputs(m2, OrderById(tx.outs), tx.id)

RECURSIVE UnindexInputsKeepsSpent(_, _)
\* a remove that leaves the consumed outputs in the output index
UnindexInputsKeepsSpent(mp, seq) ==
  IF seq = <<>> THEN mp
  ELSE UnindexInputsKeepsSpent([mp EXCEPT !.inputs = MapErase(@, Head(seq).id)],
                               Tail(seq))

RECURSIVE UnindexInputs(_, _)
UnindexInputs(mp, seq) ==
  IF seq = <<>> THEN mp
  ELSE UnindexInputs([mp EXCEPT !.inputs = MapErase(@, Head(seq).id),
                                !.outputs = MapErase(@, Head(seq).outputId)],
                     Tail(seq))

RECURSIVE UnindexOutputs(_, _)
UnindexOutputs(mp, seq) ==
  IF seq = <<>> THEN mp
  ELSE UnindexOutputs([mp EXCEPT !.outputs = MapErase(@, Head(seq).id)], Tail(seq))

\* Mempool::remove
MempoolRemove(mp, tx) ==
  IF tx.id \notin DOMAIN mp.txs THEN mp
  ELSE LET m1 == [mp EXCEPT !.txs = MapErase(@, tx.id), !.bytes = @ - tx.size]
           m2 == UnindexInputs(m1, OrderById(tx.ins))
       IN UnindexOutputs(m2, OrderById(tx.outs))

RECURSIVE RemoveAll(_, _)
RemoveAll(mp, seq) ==
  IF seq = <<>> THEN mp ELSE RemoveAll(MempoolRemove(mp, Head(seq)), Tail(seq))

\* Mempool::rescanMempool
rescanMempool(S) ==
  LET removals == {S.mp.txs[k] : k \in {k \in DOMAIN S.mp.txs :
                                         ~verifyTransaction(S, S.mp.txs[k], FALSE).ok}}
  IN [S EXCEPT !.mp = RemoveAll(S.mp, OrderById(removals))]

\* ten times the bound 3.9 * 1024 * 1024 of Mempool::getTransactions
TenTimesSelectionBound == 39 * 1024 * 1024

\* totalSize + it.second.size() < 3.9 * 1024 * 1024, the left side being an
\* integer below 2^53
FitsSelection(totalSize, tx) == 10 * (totalSize + tx.size) < TenTimesSelectionBound

RECURSIVE SelectSkipping(_, _)
\* a selection loop that passes over a transaction that does not fit
SelectSkipping(seq, totalSize) ==
  IF seq = <<>> THEN {}
  ELSE IF FitsSelection(totalSize, Head(seq))
       THEN {Head(seq)} \cup SelectSkipping(Tail(seq), totalSize + Head(seq).size)
       ELSE SelectSkipping(Tail(seq), totalSize)

RECURSIVE SelectFrom(_, _)
\* the loop of Mempool::getTransactions over txs, a map ordered by id
SelectFrom(seq, totalSize) ==
  IF seq = <<>> THEN {}
  ELSE IF FitsSelection(totalSize, Head(seq))
       THEN {Head(seq)} \cup SelectFrom(Tail(seq), totalSize + Head(seq).size)
       ELSE {}

MempoolMembers(mp) == {mp.txs[k] : k \in DOMAIN mp.txs}

getTransactionsSkipping(mp) == SelectSkipping(OrderById(MempoolMembers(mp)), 0)

\* Mempool::getTransactions
getTransactions(mp) == SelectFrom(OrderById(MempoolMembers(mp)), 0)

(***************************************************************************)
(* confirmTransaction                                                      *)
(***************************************************************************)
RECURSIVE SpendInputsKeepsUtxo(_, _)
\* SpendInputs without the utxos->erase of line 576
SpendInputsKeepsUtxo(S, seq) ==
  IF seq = <<>> THEN S
  ELSE LET inp == Head(seq)
           outputId == inp.outputId
           utxo == Get(S.utxos, outputId, NoOutput)
           S1 == [S EXCEPT !.stxos = Put(@, outputId, utxo)]
           S2 == IF utxo.pk # 0
                 THEN [S1 EXCEPT !.stxoIdx[utxo.pk] = Append(@, outputId),
                                 !.utxoIdx[utxo.pk] = Remove(@, outputId)]
                 ELSE S1
           S3 == [S2 EXCEPT !.inputs = Put(@, inp.id, TRUE)]
       IN SpendInputsKeepsUtxo(S3, Tail(seq))

RECURSIVE SpendInputs(_, _)
\* the loop over tx.getInputs() that moves each spent output to stxos
SpendInputs(S, seq) ==
  IF seq = <<>> THEN S
  ELSE LET inp == Head(seq)
           outputId == inp.outputId
           utxo == Get(S.utxos, outputId, NoOutput)
           S1 == [S EXCEPT !.stxos = Put(@, outputId, utxo)]
           S2 == IF utxo.pk # 0
                 THEN [S1 EXCEPT !.stxoIdx[utxo.pk] = Append(@, outputId),
                                 !.utxoIdx[utxo.pk] = Remove(@, outputId)]
                 ELSE S1
           S3 == [S2 EXCEPT !.utxos = Put(@, outputId, NoOutput),
                            !.inputs = Put(@, inp.id, TRUE)]
       IN SpendInputs(S3, Tail(seq))

RECURSIVE AddOutputs(_, _, _)
\* the loop over tx.getOutputs() that adds the new outputs to utxos
AddOutputs(S, seq, txid) ==
  IF seq = <<>> THEN S
  ELSE LET out == Head(seq)
           S1 == IF out.pk # 0
                 THEN [S EXCEPT !.utxoIdx[out.pk] = Append(@, out.id)]
                 ELSE S
           S2 == [S1 EXCEPT !.utxos = Put(@, out.id,
                     [obj |-> TRUE, id |-> out.id, value |-> out.value,
                      pk |-> out.pk, ct |-> out.ct, ctx |-> txid])]
       IN AddOutputs(S2, Tail(seq), txid)

confirmTransaction(S, tx, confirmingBlock, coinbaseTx) ==
  LET S1 == SpendInputs(S, OrderById(tx.ins))
      S2 == AddOutputs(S1, OrderById(tx.outs), tx.id)
  IN [S2 EXCEPT !.transactions = Put(@, tx.id,
                    [obj |-> TRUE, block |-> confirmingBlock, cb |-> coinbaseTx]),
                !.mp = MempoolRemove(@, tx)]

(***************************************************************************)
(* submitTransaction(dbTx, tx)                                             *)
(***************************************************************************)
\* consensus->submitTransaction(dbTx, tx)
ConsensusSubmitTransaction(tx) == tx.id # 11

\* a submitTransaction that reports a mempool conflict as a permanent failure
InsertVerifiedConflictPermanent(S, tx, verifyResult) ==
  IF verifyResult.ok
  THEN IF ConsensusSubmitTransaction(tx)
       THEN IF ~InsertConflict(S.mp, tx)
            THEN [S |-> [S EXCEPT !.mp = MempoolInsert(@, tx)], v |-> VOk]
            ELSE [S |-> S, v |-> VFT]
       ELSE [S |-> S, v |-> VFT]
  ELSE [S |-> S, v |-> verifyResult]

\* the body of submitTransaction once verifyTransaction has returned
InsertVerified(S, tx, verifyResult) ==
  IF verifyResult.ok
  THEN IF ConsensusSubmitTransaction(tx)
       THEN IF ~InsertConflict(S.mp, tx)
            THEN [S |-> [S EXCEPT !.mp = MempoolInsert(@, tx)], v |-> VOk]
            ELSE [S |-> S, v |-> VFF]
       ELSE [S |-> S, v |-> VFT]
  ELSE [S |-> S, v |-> verifyResult]

submitTransactionTx(S, tx) == InsertVerified(S, tx, verifyTransaction(S, tx, FALSE))

(***************************************************************************)
(* getBlockDB, getTransaction, buildBlock                                  *)
(***************************************************************************)
\* getBlockDB(transaction, id): obj = FALSE stands for NotFoundException
getBlockDB(S, id) ==
  IF Get(S.blocks, id, NoBlock).obj THEN S.blocks[id]
  ELSE Get(S.candidates, id, NoBlock)

\* getOutput(dbTx, id): utxos, then stxos
getOutput(S, o) ==
  IF Get(S.utxos, o, NoOutput).obj THEN S.utxos[o] ELSE Get(S.stxos, o, NoOutput)

\* getTransaction(transaction, id) of a stored transaction: its outputs are the
\* stored output documents, its inputs the stored input documents
getTransaction(S, t) ==
  LET outs == {[id |-> getOutput(S, o).id, value |-> getOutput(S, o).value,
                pk |-> getOutput(S, o).pk, ct |-> getOutput(S, o).ct] : o \in TxOuts(t)}
      ins == {IF Get(S.inputs, i, FALSE) THEN In(i)
              ELSE [id |-> 0, outputId |-> 0, sig |-> 0] : i \in TxIns(t)}
      same == outs = Tx(t).outs /\ ins = Tx(t).ins
  IN [id |-> IF same THEN t ELSE 0 - t,
      ins |-> ins,
      outs |-> outs,
      cb |-> S.transactions[t].cb,
      size |-> TxSize(t)]

TransactionFound(S, t) ==
  /\ Get(S.transactions, t, NoTx).obj
  /\ \A o \in TxOuts(t) : getOutput(S, o).obj

\* buildBlock(dbTx, dbblock): found = FALSE stands for NotFoundException
buildBlock(S, db) ==
  IF \A t \in BlockTxs(db.id) \cup {100 + db.id} : TransactionFound(S, t)
  THEN LET txs == {getTransaction(S, t) : t \in BlockTxs(db.id)}
           cb == getTransaction(S, 100 + db.id)
           same == txs = Block(db.id).txs /\ cb.id = 100 + db.id
       IN [found |-> TRUE, id |-> IF same THEN db.id ELSE 0 - db.id,
           prev |-> BlockPrev(db.id), height |-> db.height, cb |-> cb, txs |-> txs]
  ELSE IF Get(S.candidates, db.id, NoBlock).obj
       THEN [found |-> TRUE, id |-> db.id, prev |-> BlockPrev(db.id),
             height |-> S.candidates[db.id].height,
             cb |-> Block(db.id).cb, txs |-> Block(db.id).txs]
       ELSE [found |-> FALSE, id |-> 0, prev |-> 0, height |-> 0,
             cb |-> Tx(0), txs |-> {}]

(***************************************************************************)
(* reverseBlock                                                            *)
(***************************************************************************)
\* an eraseUtxo that takes the id off the owner's list and keeps the document
EraseUtxoKeepsOutput(S, out) ==
  IF out.pk # 0 THEN [S EXCEPT !.utxoIdx[out.pk] = Remove(@, out.id)] ELSE S

\* the eraseUtxo lambda on the utxos table
EraseUtxo(S, out) ==
  LET S1 == [S EXCEPT !.utxos = Put(@, out.id, NoOutput)]
  IN IF out.pk # 0 THEN [S1 EXCEPT !.utxoIdx[out.pk] = Remove(@, out.id)] ELSE S1

\* the eraseUtxo lambda on the stxos table
EraseStxo(S, out) ==
  LET S1 == [S EXCEPT !.stxos = Put(@, out.id, NoOutput)]
  IN IF out.pk # 0 THEN [S1 EXCEPT !.stxoIdx[out.pk] = Remove(@, out.id)] ELSE S1

RECURSIVE EraseOutputs(_, _)
EraseOutputs(S, seq) ==
  IF seq = <<>> THEN S ELSE EraseOutputs(EraseUtxo(S, Head(seq)), Tail(seq))

RECURSIVE UnspendInputs(_, _)
\* the loop over tx.getInputs() that moves each spent output back to utxos
UnspendInputs(S, seq) ==
  IF seq = <<>> THEN S
  ELSE LET inp == Head(seq)
           S1 == [S EXCEPT !.inputs = Put(@, inp.id, FALSE)]
           oldOutputId == inp.outputId
           oldOutput == Get(S1.stxos, oldOutputId, NoOutput)
           S2 == EraseStxo(S1, oldOutput)
           S3 == [S2 EXCEPT !.utxos = Put(@, oldOutputId, [oldOutput EXCEPT !.obj = TRUE])]
           S4 == IF oldOutput.pk # 0
                 THEN [S3 EXCEPT !.utxoIdx[oldOutput.pk] = Append(@, oldOutputId)]
                 ELSE S3
       IN UnspendInputs(S4, Tail(seq))

RECURSIVE ReverseTxs(_, _)
\* the loop over tip.getTransactions()
ReverseTxs(S, seq) ==
  IF seq = <<>> THEN S
  ELSE LET tx == Head(seq)
           S1 == EraseOutputs(S, OrderById(tx.outs))
           S2 == UnspendInputs(S1, OrderById(tx.ins))
           S3 == [S2 EXCEPT !.transactions = Put(@, tx.id, NoTx)]
       IN ReverseTxs(S3, Tail(seq))

RECURSIVE ReplayTxs(_, _)
\* the loop over replayTxs
ReplayTxs(S, seq) ==
  IF seq = <<>> THEN S ELSE ReplayTxs(submitTransactionTx(S, Head(seq)).S, Tail(seq))

\* the second half of reverseBlock, S being the state after the outputs and
\* inputs of the tip's transactions were put back
MoveTip(S, tip) ==
  LET tipDB == S.tip
      S4 == [S EXCEPT !.heights = Put(@, tipDB.height, 0),
                      !.blocks = Put(@, tip.id, NoBlock)]
      newTip == getBlockDB(S4, tip.prev)
  IN IF ~newTip.obj THEN [S4 EXCEPT !.exc = TRUE]
     ELSE ReplayTxs(rescanMempool([S4 EXCEPT !.tip = newTip,
                                             !.candidates = Put(@, tip.id,
                                                [obj |-> TRUE, id |-> tip.id,
                                                 height |-> tip.height])]),
                    OrderById(tip.txs))

\* the first half of reverseBlock, tip being the block buildBlock returned
ReverseTip(S, tip) ==
  IF ~tip.found THEN [S EXCEPT !.exc = TRUE]
  ELSE MoveTip(ReverseTxs([EraseOutputs(S, OrderById(tip.cb.outs))
                             EXCEPT !.transactions = Put(@, tip.cb.id, NoTx)],
                          OrderById(tip.txs)),
               tip)

reverseBlock(S) ==
  IF ~S.tip.obj THEN [S EXCEPT !.exc = TRUE] ELSE ReverseTip(S, buildBlock(S, S.tip))

(***************************************************************************)
(* submitBlock(dbTx, block, genesisBlock) and reorgChain                   *)
(***************************************************************************)
\* getBlockReward(height), in units of 2^60
getBlockReward(height) == 5

\* consensus->checkConsensusRules(dbTx, newBlock, previousBlock)
CheckConsensusRules(blk) == blk.id # 9

\* consensus->submitBlock(dbTx, newBlock)
ConsensusSubmitBlock(blk) == blk.id # 10

calculateTransactionFee(S, tx) ==
  LET outputTotal == SumValues(OrderById(tx.outs))
      inputTotal == SumValues([k \in 1..Cardinality(tx.ins) |->
                       Get(S.utxos, OrderById(tx.ins)[k].outputId, NoOutput)])
  IN SubU64(inputTotal, outputTotal)

RECURSIVE SumFees(_, _)
SumFees(S, seq) ==
  IF seq = <<>> THEN 0
  ELSE AddU64(calculateTransactionFee(S, Head(seq)), SumFees(S, Tail(seq)))

\* a submitBlock that skips the loop of lines 504-506
ConfirmAllSkipsLoop(S, seq, blockId) == S

RECURSIVE ConfirmAll(_, _, _)
ConfirmAll(S, seq, blockId) ==
  IF seq = <<>> THEN S
  ELSE ConfirmAll(confirmTransaction(S, Head(seq), blockId, FALSE), Tail(seq), blockId)

\* what a call returns: the working state, the verdict, how the call ended
\* ("none": it returned; "notfound": NotFoundException; "crash": the process
\* died) and the branch the outermost call took
Result(S, v, path) ==
  [S |-> S, ok |-> v.ok, perm |-> v.perm, exc |-> "none", path |-> path]

Thrown(S, path) ==
  [S |-> S, ok |-> FALSE, perm |-> FALSE, exc |-> "notfound", path |-> path]

Crashed(S, path) ==
  [S |-> S, ok |-> FALSE, perm |-> FALSE, exc |-> "crash", path |-> path]

RECURSIVE CandidateChain(_, _)
\* the walk back through candidates: the blocks pushed on blockList, first
\* pushed first
CandidateChain(S, id) ==
  IF Get(S.candidates, id, NoBlock).obj
  THEN <<id>> \o CandidateChain(S, BlockPrev(id))
  ELSE <<>>

RECURSIVE ReverseTo(_, _)
\* while(getBlockDB(dbTransaction, "tip").getId() != forkBlockId) reverseBlock
ReverseTo(S, forkBlockId) ==
  IF S.exc THEN S
  ELSE IF ~S.tip.obj THEN [S EXCEPT !.exc = TRUE]
  ELSE IF S.tip.id = forkBlockId THEN S
  ELSE ReverseTo(reverseBlock(S), forkBlockId)

\* the full apply of lines 441-507, after all checks passed
ApplyBlock(S, blk) ==
  ConfirmAll(confirmTransaction(S, blk.cb, blk.id, TRUE), OrderById(blk.txs), blk.id)

\* SaveTip without the rescanMempool of line 520
SaveTipNoRescan(S, blk, blockHeight) ==
  LET toSave == [obj |-> TRUE, id |-> blk.id, height |-> blockHeight]
  IN [S EXCEPT !.candidates = Put(@, blk.id, NoBlock),
               !.tip = toSave,
               !.heights = Put(@, blockHeight, blk.id),
               !.blocks = Put(@, blk.id, toSave)]

\* SaveTip without the candidates->erase of line 516
SaveTipKeepsCandidate(S, blk, blockHeight) ==
  LET toSave == [obj |-> TRUE, id |-> blk.id, height |-> blockHeight]
  IN rescanMempool([S EXCEPT !.tip = toSave,
                             !.heights = Put(@, blockHeight, blk.id),
                             !.blocks = Put(@, blk.id, toSave)])

\* lines 513-520: the block becomes the tip
SaveTip(S, blk, blockHeight) ==
  LET toSave == [obj |-> TRUE, id |-> blk.id, height |-> blockHeight]
  IN rescanMempool([S EXCEPT !.candidates = Put(@, blk.id, NoBlock),
                             !.tip = toSave,
                             !.heights = Put(@, blockHeight, blk.id),
                             !.blocks = Put(@, blk.id, toSave)])

\* SaveCandidate storing the parent's height instead of the parent's height + 1
SaveCandidateParentHeight(S, blk, blockHeight) ==
  [S EXCEPT !.candidates = Put(@, blk.id,
               [obj |-> TRUE, id |-> blk.id, height |-> blockHeight - 1])]

\* lines 509-512: the block is only stored
SaveCandidate(S, blk, blockHeight) ==
  [S EXCEPT !.candidates = Put(@, blk.id,
               [obj |-> TRUE, id |-> blk.id, height |-> blockHeight])]

\* lines 473-521: the rest of a full apply once every worker passed
ApplyVerified(S, blk, blockHeight, path) ==
  LET fees == SumFees(S, OrderById(blk.txs))
      outputTotal == SumValues(OrderById(blk.cb.outs))
  IN IF ~verifyTransaction(S, blk.cb, TRUE).ok THEN Result(S, VFT, path)
     ELSE IF outputTotal > AddU64(fees, getBlockReward(blockHeight))
          THEN Result(S, VFT, path)
     ELSE IF ~ConsensusSubmitBlock(blk) THEN Result(S, VFT, path)
     ELSE Result(SaveTip(ApplyBlock(S, blk), blk, blockHeight), VOk, path)

\* lines 441-521 for a block that is applied at blockHeight: the verdict of the
\* workers of lines 444-470, then the rest
FullApply(S, blk, blockHeight, path) ==
  IF \E tx \in blk.txs : ~verifyTransaction(S, tx, FALSE).ok
  THEN Result(S, VFT, path)
  ELSE ApplyVerified(S, blk, blockHeight, path)

\* the block whose parent is unknown is kept as a candidate
DetachedIsSaved(S, newBlock) == Result(SaveCandidate(S, newBlock, 1), VOk, "detached")

\* the block whose parent is unknown is rejected as a transient failure
DetachedNotPermanent(S, newBlock) == Result(S, VFF, "detached")

\* lines 392-397: the parent is in neither blocks nor candidates
Detached(S, newBlock) == Result(S, VFT, "detached")

RECURSIVE submitBlockTx(_, _, _, _, _)
RECURSIVE SubmitList(_, _, _, _)
RECURSIVE SubmitRest(_, _, _, _)
RECURSIVE reorgChain(_, _, _, _)

\* the loop that submits the blocks of blockList, top first
SubmitList(S, stack, better, garbage) ==
  IF stack = <<>> THEN Result(S, VOk, "fork")
  ELSE SubmitRest(submitBlockTx(S, Block(stack[Len(stack)]), FALSE, better, garbage),
                  stack, better, garbage)

\* one turn of that loop, r being what submitBlock returned for the top
SubmitRest(r, stack, better, garbage) ==
  IF r.exc # "none" THEN r
  ELSE IF ~r.ok THEN Result(r.S, VFT, "fork")
  ELSE SubmitList(r.S, SubSeq(stack, 1, Len(stack) - 1), better, garbage)

\* reorgChain after its loop of reverseBlock calls left S1
Resubmit(S1, blockList, better, garbage) ==
  IF S1.exc THEN Thrown(S1, "fork") ELSE SubmitList(S1, blockList, better, garbage)

\* submitBlock after reorgChain returned r
AfterReorg(r, newBlock) ==
  IF r.exc # "none" THEN r
  ELSE IF ~r.ok THEN Result(r.S, VFT, "fork")
  ELSE IF ~r.S.tip.obj THEN Thrown(r.S, "fork")
  ELSE FullApply(r.S, newBlock, r.S.tip.height + 1, "fork")

\* reorgChain(dbTransaction, newTipId); ok is its return value.  blockList.top()
\* of an empty stack is undefined: the process dies (garbage = -1) or
\* forkBlockId is whatever id the read yields (garbage >= 0).
reorgChain(S, newTipId, better, garbage) ==
  LET blockList == CandidateChain(S, newTipId)
  IN IF blockList = <<>> /\ garbage < 0 THEN Crashed(S, "fork")
     ELSE LET forkBlockId == IF blockList = <<>> THEN garbage
                             ELSE BlockPrev(blockList[Len(blockList)])
          IN Resubmit(ReverseTo(S, forkBlockId), blockList, better, garbage)

submitBlockTx(S, newBlock, genesisBlock, better, garbage) ==
  IF Get(S.blocks, newBlock.id, NoBlock).obj THEN Result(S, VOk, "known")
  ELSE IF genesisBlock THEN FullApply(S, newBlock, 1, "genesis")
  ELSE LET previousBlock == getBlockDB(S, newBlock.prev)
       IN IF ~previousBlock.obj THEN Detached(S, newBlock)
          ELSE IF ~CheckConsensusRules(newBlock) THEN Result(S, VFT, "rules")
          ELSE IF ~S.tip.obj THEN Thrown(S, "notip")
          ELSE IF previousBlock.id = S.tip.id
               THEN FullApply(S, newBlock, S.tip.height + 1, "extension")
          ELSE IF better
               THEN AfterReorg(reorgChain(S, previousBlock.id, better, garbage), newBlock)
          ELSE Result(SaveCandidate(S, newBlock, previousBlock.height + 1), VOk, "save")

(***************************************************************************)
(* generateVerifyingBlock                                                  *)
(***************************************************************************)
RECURSIVE AddFees(_, _, _)
\* the loop value += calculateTransactionFee(dbTx.get(), tx)
AddFees(S, seq, value) ==
  IF seq = <<>> THEN value
  ELSE AddFees(S, Tail(seq), AddU64(value, calculateTransactionFee(S, Head(seq))))

\* the block built on a tip, or as genesis, with the given transactions; the
\* coinbase output has a fresh id, written 0
BlockOn(S, blockTransactions, height, previousBlockId, pubKey) ==
  [prev |-> previousBlockId,
   height |-> height,
   txs |-> blockTransactions,
   cb |-> [ins |-> {},
           outs |-> {[id |-> 0,
                      value |-> AddFees(S, OrderById(blockTransactions),
                                        getBlockReward(height)),
                      pk |-> pubKey, ct |-> FALSE]}]]

generateVerifyingBlock(S, publicKey) ==
  IF S.tip.obj
  THEN BlockOn(S, getTransactions(S.mp), S.tip.height + 1, S.tip.id, publicKey)
  ELSE BlockOn(S, getTransactions(S.mp), 1, 0, publicKey)

(***************************************************************************)
(* The engine: the committed store, the mempool, and the public calls      *)
(***************************************************************************)
\* the threads that call submitBlock and submitTransaction, and the thread that
\* takes a handle with getTxHandle
NCallers == 2

Callers == 1..NCallers

HandleHolder == NCallers + 1

VARIABLES store, mempool, status, last, feed, fanout, calls, genesis

vars == <<store, mempool, status, last, feed, fanout, calls, genesis>>

\* The blocks and transactions that reach the engine in one run: a run of the
\* two chains that compete, or a run of malformed blocks.
Feeds ==
  {[blocks |-> {1, 2, 3, 4, 5, 6}, txs |-> {1, 2, 3}],
   [blocks |-> {1, 2, 4, 6, 12}, txs |-> {1, 2}],
   [blocks |-> {1, 7, 8, 9, 10, 11}, txs |-> {1, 2, 4, 5}],
   [blocks |-> {1, 2, 15}, txs |-> {1, 3} \cup (6..16)]}

\* no block was generated
NoGen ==
  [prev |-> 0, height |-> 0, txs |-> {}, cb |-> [ins |-> {}, outs |-> {}]]

NoCall ==
  [op |-> "none", arg |-> 0, ok |-> FALSE, perm |-> FALSE, exc |-> "none",
   path |-> "none", gen |-> NoGen]

\* no submitBlock is between lines 444 and 470
NoFanout ==
  [pc |-> "idle", block |-> 0, threads |-> 0, nTx |-> 0, workers |-> <<>>,
   failure |-> FALSE, result |-> "none"]

\* a thread that is in no public call
IdleCall ==
  [pc |-> "idle", op |-> "none", arg |-> 0, better |-> FALSE,
   snap |-> EmptyStore,
   res |-> Result(Working(EmptyStore, EmptyMempool), VFF, "none")]

\* chainLock is free, no thread is in a public call, no handle is out.  count
\* and serial are a record of the run: how many times the lock was taken, and
\* the store and mempool that the calls made so far leave when each runs alone,
\* in the order in which they took the lock.
NoCalls ==
  [owner |-> 0,
   thr |-> [c \in Callers |-> IdleCall],
   handle |-> "none",
   count |-> 0,
   serial |-> [store |-> EmptyStore, mempool |-> EmptyMempool]]

\* the block generateVerifyingBlock returns on the emptied store: no parent, no
\* transactions, a coinbase worth the reward of height 1, paid to a fresh key
GeneratedGenesis == 16

\* the genesis file (0: it cannot be opened) and the field genesisBlockId
\* (0: not set)
NoGenesis == [file |-> 0, id |-> 0]

\* the files loadChain may be given: none, the genesis block, a block that
\* consensus refuses
GenesisFiles == {0, 1, 10}

Init ==
  /\ store = EmptyStore
  /\ mempool = EmptyMempool
  /\ status = "new"
  /\ last = NoCall
  /\ feed \in Feeds
  /\ fanout = NoFanout
  /\ calls = NoCalls
  /\ genesis \in {[NoGenesis EXCEPT !.file = f] : f \in GenesisFiles}

\* whether submitBlock reaches consensus->isBlockBetter
ConsultsBetter(S, blk) ==
  /\ ~Get(S.blocks, blk.id, NoBlock).obj
  /\ getBlockDB(S, blk.prev).obj
  /\ CheckConsensusRules(blk)
  /\ S.tip.obj
  /\ blk.prev # S.tip.id

\* whether reorgChain reads the top of an empty blockList
ReadsEmptyStack(S, blk) == ~Get(S.candidates, blk.prev, NoBlock).obj

BetterChoices(S, blk) == IF ConsultsBetter(S, blk) THEN BOOLEAN ELSE {FALSE}

GarbageChoices(S, blk, better) ==
  IF ConsultsBetter(S, blk) /\ better /\ ReadsEmptyStack(S, blk)
  THEN {0 - 1, 0} \cup {x \in BlockIds : S.blocks[x].obj}
  ELSE {0}

\* a public call that commits whatever its verdict is
CommitAlways(r) == StoreOf(r.S)

\* the public submitBlock and submitTransaction: begin, call, commit on ok
Commit(r) == IF r.exc = "none" /\ r.ok THEN StoreOf(r.S) ELSE store

Called(op, arg, r) ==
  [op |-> op, arg |-> arg, ok |-> r.ok, perm |-> r.perm, exc |-> r.exc,
   path |-> r.path, gen |-> NoGen]

\* getBlockByHeight(height): found = FALSE stands for NotFoundException
getBlockByHeight(S, height) == buildBlock(S, getBlockDB(S, Get(S.heights, height, 0)))

\* lines 66, 81: the public submitBlock(block, true), committed when it is ok
ImportGenesis(st, mp, b) ==
  CHOOSE res \in
    {[ok |-> r.exc = "none" /\ r.ok,
      store |-> IF r.exc = "none" /\ r.ok THEN StoreOf(r.S) ELSE st,
      mp |-> r.S.mp] :
       r \in {submitBlockTx(Working(st, mp), Block(b), TRUE, FALSE, 0)}} : TRUE

\* lines 92-97
FinishLoad(st, mp, gen, submitted) ==
  CHOOSE res \in
    {[store |-> st, mp |-> mp,
      genesis |-> IF genesisBlock.found THEN [gen EXCEPT !.id = genesisBlock.id]
                  ELSE gen,
      found |-> genesisBlock.found,
      submitted |-> submitted] :
       genesisBlock \in {getBlockByHeight(Working(st, mp), 1)}} : TRUE

\* lines 57-73: the genesis file is read and its block submitted
ImportFile(mp, gen) ==
  IF gen.file # 0 THEN ImportGenesis(EmptyStore, mp, gen.file)
  ELSE [ok |-> FALSE, store |-> EmptyStore, mp |-> mp]

\* lines 76-89: a new genesis block is generated, submitted and written
GenerateGenesis(st, mp, gen) ==
  CHOOSE res \in
    {FinishLoad(new.store, new.mp, [gen EXCEPT !.file = GeneratedGenesis],
                GeneratedGenesis) :
       new \in {ImportGenesis(st, mp, GeneratedGenesis)}} : TRUE

\* lines 55-89: no tip is stored
Bootstrap(mp, gen) ==
  CHOOSE res \in
    {IF file.ok THEN FinishLoad(file.store, file.mp, gen, gen.file)
     ELSE GenerateGenesis(file.store, file.mp, gen) :
       file \in {ImportFile(mp, gen)}} : TRUE

\* loadChain(consensus, genesisBlockFile), lines 47-98
loadChain(st, mp, gen) ==
  IF st.tip.obj THEN FinishLoad(st, mp, gen, 0) ELSE Bootstrap(mp, gen)

LoadChain ==
  /\ status \in {"new", "loaded"}
  /\ \E r \in {loadChain(store, mempool, genesis)} :
        /\ store' = r.store
        /\ mempool' = r.mp
        /\ genesis' = r.genesis
        /\ status' = IF r.found THEN "loaded" ELSE status
        /\ last' = [NoCall EXCEPT !.op = "loadChain", !.arg = r.submitted,
                                  !.ok = r.found,
                                  !.exc = IF r.found THEN "none" ELSE "notfound",
                                  !.path = IF r.submitted = 0 THEN "reload"
                                           ELSE "genesis"]
        /\ feed' = feed
        /\ fanout' = fanout
        /\ calls' = calls

SubmitBlock(b) ==
  /\ status = "loaded"
  /\ b \in feed.blocks
  /\ \E better \in BetterChoices(store, Block(b)) :
       \E garbage \in GarbageChoices(store, Block(b), better) :
         \E r \in {submitBlockTx(Working(store, mempool), Block(b), FALSE,
                                  better, garbage)} :
            /\ store' = Commit(r)
            /\ mempool' = IF r.exc = "crash" THEN mempool ELSE r.S.mp
            /\ status' = IF r.exc = "crash" THEN "crashed" ELSE status
            /\ last' = Called("submitBlock", b, r)
            /\ feed' = feed
            /\ fanout' = fanout
            /\ calls' = calls
            /\ genesis' = genesis

SubmitTransaction(t) ==
  /\ status = "loaded"
  /\ t \in feed.txs
  /\ \E r \in {submitTransactionTx(Working(store, mempool), Tx(t))} :
     LET res == Result(r.S, r.v, "tx")
     IN /\ store' = Commit(res)
        /\ mempool' = r.S.mp
        /\ status' = status
        /\ last' = Called("submitTransaction", t, res)
        /\ feed' = feed
        /\ fanout' = fanout
        /\ calls' = calls
        /\ genesis' = genesis

GenerateVerifyingBlock(publicKey) ==
  /\ status \in {"new", "loaded"}
  /\ last' = [NoCall EXCEPT !.op = "generateVerifyingBlock", !.arg = publicKey,
                            !.ok = TRUE,
                            !.gen = generateVerifyingBlock(Working(store, mempool),
                                                           publicKey)]
  /\ store' = store
  /\ mempool' = mempool
  /\ status' = status
  /\ feed' = feed
  /\ fanout' = fanout
  /\ calls' = calls
  /\ genesis' = genesis

Next ==
  \/ LoadChain
  \/ \E b \in BlockIds : SubmitBlock(b)
  \/ \E t \in TxIds : SubmitTransaction(t)
  \/ \E k \in PubKeys : GenerateVerifyingBlock(k)

Spec == Init /\ [][Next]_vars

\* lines 380-438: submitBlock takes the block to a full apply on top of the tip
ExtendsTip(b) ==
  /\ status = "loaded"
  /\ store.tip.obj
  /\ ~store.blocks[b].obj
  /\ BlockPrev(b) = store.tip.id
  /\ CheckConsensusRules(Block(b))

(***************************************************************************)
(* The validation workers of submitBlock, lines 444-470, step by step.     *)
(* The main thread starts one worker per transaction and, every `threads`  *)
(* transactions and after the last one, joins the workers it started and   *)
(* reads failure.  The workers only read the store; each writes failure    *)
(* when its transaction does not verify.                                   *)
(***************************************************************************)
\* the largest value of std::thread::hardware_concurrency(), which may be 0
NThreads == 2

\* the blocks that reach the engine in a run of the workers
WorkerFeed == [blocks |-> {2, 3, 7, 13, 14}, txs |-> {}]

\* the engine once loadChain has imported the genesis block
LoadedStore ==
  StoreOf(submitBlockTx(Working(EmptyStore, EmptyMempool), Block(1), TRUE, FALSE, 0).S)

WorkerInit ==
  /\ store = LoadedStore
  /\ mempool = EmptyMempool
  /\ status = "loaded"
  /\ last = NoCall
  /\ feed = WorkerFeed
  /\ fanout = NoFanout
  /\ calls = NoCalls
  /\ genesis = [file |-> 1, id |-> 1]

\* the workers that were started and are not joined yet
InThreadsVec(f) ==
  {t \in DOMAIN f.workers : f.workers[t] \in {"running", "failing", "finished"}}

\* nTx % threads; the remainder by 0 is undefined: where the division does
\* not trap it is whatever the machine leaves, zero or not
Remainders(nTx, threads) == IF threads = 0 THEN {0, 1} ELSE {nTx % threads}

\* lines 441-448: a submitBlock of a block on top of the tip reaches the loop
StartValidation(b) ==
  /\ fanout.pc = "idle"
  /\ b \in feed.blocks
  /\ ExtendsTip(b)
  /\ \E n \in 0..NThreads :
       fanout' = [pc |-> "loop", block |-> b, threads |-> n, nTx |-> 0,
                  workers |-> [t \in BlockTxs(b) |-> "unstarted"],
                  failure |-> FALSE, result |-> "none"]
  /\ UNCHANGED <<store, mempool, status, last, feed, calls, genesis>>

\* lines 450-456: the thread of the next transaction is started
StartWorker ==
  /\ fanout.pc = "loop"
  /\ fanout.nTx < Cardinality(BlockTxs(fanout.block))
  /\ LET tx == OrderById(Block(fanout.block).txs)[fanout.nTx + 1]
     IN fanout' = [fanout EXCEPT !.workers[tx.id] = "running",
                                 !.nTx = @ + 1,
                                 !.pc = "test"]
  /\ UNCHANGED <<store, mempool, status, last, feed, calls, genesis>>

\* line 450: no transaction is left, the loop ends
LoopEnds ==
  /\ fanout.pc = "loop"
  /\ fanout.nTx = Cardinality(BlockTxs(fanout.block))
  /\ fanout' = [fanout EXCEPT !.pc = "done", !.result = "passed"]
  /\ UNCHANGED <<store, mempool, status, last, feed, calls, genesis>>

\* line 458 with threads = 0 on a machine where the division traps
DivisionTraps ==
  /\ fanout.pc = "test"
  /\ fanout.threads = 0
  /\ fanout' = [fanout EXCEPT !.pc = "crashed"]
  /\ UNCHANGED <<store, mempool, status, last, feed, calls, genesis>>

\* line 458: nTx % threads == 0 || nTx >= txs.size()
TestBatch ==
  /\ fanout.pc = "test"
  /\ \E rem \in Remainders(fanout.nTx, fanout.threads) :
       fanout' = [fanout EXCEPT !.pc =
                    IF rem = 0 \/ fanout.nTx >= Cardinality(BlockTxs(fanout.block))
                    THEN "join" ELSE "loop"]
  /\ UNCHANGED <<store, mempool, status, last, feed, calls, genesis>>

\* lines 459-461: join() of the first thread of threadsVec returns once that
\* thread has finished
JoinWorker(t) ==
  /\ fanout.pc = "join"
  /\ t \in InThreadsVec(fanout)
  /\ \A u \in InThreadsVec(fanout) : t <= u
  /\ fanout.workers[t] = "finished"
  /\ fanout' = [fanout EXCEPT !.workers[t] = "joined"]
  /\ UNCHANGED <<store, mempool, status, last, feed, calls, genesis>>

\* lines 462-468: every thread of the batch is joined; failure decides
BatchVerdict ==
  /\ fanout.pc = "join"
  /\ InThreadsVec(fanout) = {}
  /\ fanout' = IF fanout.failure
               THEN [fanout EXCEPT !.pc = "done", !.result = "rejected"]
               ELSE [fanout EXCEPT !.pc = "loop"]
  /\ UNCHANGED <<store, mempool, status, last, feed, calls, genesis>>

\* line 452: a worker evaluates verifyTransaction(dbTx, tx)
WorkerVerifies(t) ==
  /\ t \in DOMAIN fanout.workers
  /\ fanout.workers[t] = "running"
  /\ fanout' = [fanout EXCEPT !.workers[t] =
                  IF verifyTransaction(Working(store, mempool), Tx(t), FALSE).ok
                  THEN "finished" ELSE "failing"]
  /\ UNCHANGED <<store, mempool, status, last, feed, calls, genesis>>

\* line 453: failure = true
WorkerFails(t) ==
  /\ t \in DOMAIN fanout.workers
  /\ fanout.workers[t] = "failing"
  /\ fanout' = [fanout EXCEPT !.workers[t] = "finished", !.failure = TRUE]
  /\ UNCHANGED <<store, mempool, status, last, feed, calls, genesis>>

\* line 467, or lines 473-531, and the commit of the public submitBlock
ReturnVerdict ==
  /\ fanout.pc = "done"
  /\ \E r \in {IF fanout.result = "rejected"
              THEN Result(Working(store, mempool), VFT, "extension")
              ELSE ApplyVerified(Working(store, mempool), Block(fanout.block),
                                 store.tip.height + 1, "extension")} :
       /\ store' = Commit(r)
       /\ mempool' = r.S.mp
       /\ last' = Called("submitBlock", fanout.block, r)
  /\ fanout' = NoFanout
  /\ UNCHANGED <<status, feed, calls, genesis>>

WorkerNext ==
  \/ \E b \in BlockIds : StartValidation(b)
  \/ StartWorker
  \/ LoopEnds
  \/ DivisionTraps
  \/ TestBatch
  \/ \E t \in TxIds : JoinWorker(t)
  \/ BatchVerdict
  \/ \E t \in TxIds : WorkerVerifies(t)
  \/ \E t \in TxIds : WorkerFails(t)
  \/ ReturnVerdict

WorkerSpec == WorkerInit /\ [][WorkerNext]_vars

(***************************************************************************)
(* The chain lock.  Callers on separate threads enter the public           *)
(* submitBlock and submitTransaction, and one more thread takes a handle   *)
(* with getTxHandle.  A public call is taken step by step: its lock_guard, *)
(* blockdb->begin(), the call on the store transaction, the commit, the    *)
(* end of its scope.  The lock_guards of the inner calls (lines 347, 374)  *)
(* are taken by the thread that already owns the recursive mutex.          *)
(***************************************************************************)
\* how many public calls a run makes
MaxCalls == 3

\* the blocks and transactions the callers submit
LockFeed == [blocks |-> {2, 4, 5, 6}, txs |-> {1, 2}]

LockInit ==
  /\ store = LoadedStore
  /\ mempool = EmptyMempool
  /\ status = "loaded"
  /\ last = NoCall
  /\ feed = LockFeed
  /\ fanout = NoFanout
  /\ calls = [NoCalls EXCEPT !.serial = [store |-> LoadedStore,
                                         mempool |-> EmptyMempool]]
  /\ genesis = [file |-> 1, id |-> 1]

\* a pure consensus adapter: isBlockBetter is a function of the block, the
\* answer ans it has for it, and the store; this one prefers no block whose
\* parent is on the main chain
PureBetter(S, blk, ans) == ans /\ Get(S.candidates, blk.prev, NoBlock).obj

TxResult(r) == Result(r.S, r.v, "tx")

\* lines 328 and 338: the call on a store transaction begun on st, the mempool
\* being mp
RunCall(st, mp, call) ==
  IF call.op = "submitBlock"
  THEN submitBlockTx(Working(st, mp), Block(call.arg), FALSE,
                     PureBetter(st, Block(call.arg), call.better), 0)
  ELSE TxResult(submitTransactionTx(Working(st, mp), Tx(call.arg)))

\* the store and mempool a call leaves when it returned r on a transaction
\* begun on ser.store
SerialAfter(ser, r) ==
  [store |-> IF r.exc = "none" /\ r.ok THEN StoreOf(r.S) ELSE ser.store,
   mempool |-> r.S.mp]

\* std::lock_guard on a mutex that nobody holds
NoLockGuard(c) == TRUE

\* std::lock_guard<std::recursive_mutex> lock(chainLock) returns once the
\* mutex is free or is held by the calling thread
CanLock(c) == calls.owner \in {0, c}

\* lines 326, 336: a thread enters a public call and takes chainLock
EnterCall(c, op, arg, ans) ==
  /\ calls.thr[c].pc = "idle"
  /\ calls.count < MaxCalls
  /\ CanLock(c)
  /\ \E call \in {[IdleCall EXCEPT !.pc = "locked", !.op = op, !.arg = arg,
                                   !.better = ans]} :
       calls' = [calls EXCEPT
                   !.owner = c,
                   !.thr[c] = call,
                   !.count = @ + 1,
                   !.serial = SerialAfter(@, RunCall(@.store, @.mempool, call))]
  /\ UNCHANGED <<store, mempool, status, last, feed, fanout, genesis>>

\* lines 327, 337: blockdb->begin()
BeginCall(c) ==
  /\ calls.thr[c].pc = "locked"
  /\ calls' = [calls EXCEPT !.thr[c].pc = "begun", !.thr[c].snap = store]
  /\ UNCHANGED <<store, mempool, status, last, feed, fanout, genesis>>

\* lines 328, 338: the call itself, which works on the mempool in place
RunStep(c) ==
  /\ calls.thr[c].pc = "begun"
  /\ \E r \in {RunCall(calls.thr[c].snap, mempool, calls.thr[c])} :
       /\ calls' = [calls EXCEPT !.thr[c].pc = "ran", !.thr[c].res = r]
       /\ mempool' = r.S.mp
  /\ UNCHANGED <<store, status, last, feed, fanout, genesis>>

\* lines 329-331, 339-341: dbTx->commit() when the verdict is ok
CommitCall(c) ==
  /\ calls.thr[c].pc = "ran"
  /\ \E r \in {calls.thr[c].res} :
       /\ store' = IF r.exc = "none" /\ r.ok THEN StoreOf(r.S) ELSE store
       /\ last' = Called(calls.thr[c].op, calls.thr[c].arg, r)
  /\ calls' = [calls EXCEPT !.thr[c].pc = "returning"]
  /\ UNCHANGED <<mempool, status, feed, fanout, genesis>>

\* lines 332-333, 342-343: the scope ends, the lock_guard releases chainLock
LeaveCall(c) ==
  /\ calls.thr[c].pc = "returning"
  /\ calls' = [calls EXCEPT !.thr[c].pc = "idle",
                            !.owner = IF @ = c THEN 0 ELSE @]
  /\ UNCHANGED <<store, mempool, status, last, feed, fanout, genesis>>

\* lines 881-885: getTxHandle locks chainLock and begins a store transaction
\* that keeps the mutex
GetTxHandle ==
  /\ calls.handle = "none"
  /\ CanLock(HandleHolder)
  /\ calls' = [calls EXCEPT !.owner = HandleHolder, !.handle = "open"]
  /\ UNCHANGED <<store, mempool, status, last, feed, fanout, genesis>>

\* the holder gives the handle back: the store transaction that was begun
\* with chainLock unlocks it
ReleaseHandle ==
  /\ calls.handle = "open"
  /\ calls' = [calls EXCEPT !.handle = "none",
                            !.owner = IF @ = HandleHolder THEN 0 ELSE @]
  /\ UNCHANGED <<store, mempool, status, last, feed, fanout, genesis>>

LockNext ==
  \/ \E c \in Callers : \E b \in LockFeed.blocks : \E ans \in BOOLEAN :
       EnterCall(c, "submitBlock", b, ans)
  \/ \E c \in Callers : \E t \in LockFeed.txs :
       EnterCall(c, "submitTransaction", t, FALSE)
  \/ \E c \in Callers : BeginCall(c)
  \/ \E c \in Callers : RunStep(c)
  \/ \E c \in Callers : CommitCall(c)
  \/ \E c \in Callers : LeaveCall(c)
  \/ GetTxHandle
  \/ ReleaseHandle

LockSpec == LockInit /\ [][LockNext]_vars

(***************************************************************************)
(* The mempool on its own: transactions are inserted and removed, the      *)
(* mempool is rescanned against the store, and a selection is taken for    *)
(* the next block.                                                         *)
(***************************************************************************)
\* Mempool::insert: the value it returns
MempoolInsertReturns(mp, tx) == ~InsertConflict(mp, tx)

MempoolCalled(op, arg, ok, sel) == [op |-> op, arg |-> arg, ok |-> ok, sel |-> sel]

MempoolInit ==
  /\ store = LoadedStore
  /\ mempool = EmptyMempool
  /\ status = "loaded"
  /\ last = MempoolCalled("none", 0, FALSE, {})
  /\ feed = [blocks |-> {}, txs |-> TxIds]
  /\ fanout = NoFanout
  /\ calls = NoCalls
  /\ genesis = [file |-> 1, id |-> 1]

InsertCall(t) ==
  /\ mempool' = MempoolInsert(mempool, Tx(t))
  /\ last' = MempoolCalled("insert", t, MempoolInsertReturns(mempool, Tx(t)), {})
  /\ UNCHANGED <<store, status, feed, fanout, calls, genesis>>

RemoveCall(t) ==
  /\ mempool' = MempoolRemove(mempool, Tx(t))
  /\ last' = MempoolCalled("remove", t, TRUE, {})
  /\ UNCHANGED <<store, status, feed, fanout, calls, genesis>>

RescanCall ==
  /\ mempool' = rescanMempool(Working(store, mempool)).mp
  /\ last' = MempoolCalled("rescanMempool", 0, TRUE, {})
  /\ UNCHANGED <<store, status, feed, fanout, calls, genesis>>

GetTransactionsCall ==
  /\ last' = MempoolCalled("getTransactions", 0, TRUE, getTransactions(mempool))
  /\ UNCHANGED <<store, mempool, status, feed, fanout, calls, genesis>>

MempoolNext ==
  \/ \E t \in feed.txs : InsertCall(t)
  \/ \E t \in feed.txs : RemoveCall(t)
  \/ RescanCall
  \/ GetTransactionsCall

MempoolSpec == MempoolInit /\ [][MempoolNext]_vars

(***************************************************************************)
(* Properties of the engine                                                *)
(***************************************************************************)
\* a public submitBlock call (loadChain makes one for the genesis block)
\* returned its verdict
BlockCallReturned(c) == c.op \in {"submitBlock", "loadChain"} /\ c.exc = "none"

RECURSIVE CreatedValue(_)
\* the sum of the values of a set of output ids, in units of 2^60, unwrapped
CreatedValue(outs) ==
  IF outs = {} THEN 0
  ELSE LET o == CHOOSE x \in outs : TRUE
       IN OutValue(o) + CreatedValue(outs \ {o})

RECURSIVE SpentValue(_)
\* the sum of the values of the outputs a set of inputs spends, unwrapped
SpentValue(ins) ==
  IF ins = {} THEN 0
  ELSE LET i == CHOOSE x \in ins : TRUE
       IN OutValue(InOutputId(i)) + SpentValue(ins \ {i})

RECURSIVE TrueFees(_)
\* the sum over a set of transactions of input total minus output total
TrueFees(txs) ==
  IF txs = {} THEN 0
  ELSE LET t == CHOOSE x \in txs : TRUE
       IN SpentValue(TxIns(t)) - CreatedValue(TxOuts(t)) + TrueFees(txs \ {t})

\* C1: in every committed state no output id is present in both utxos and
\* stxos.
C1_UtxosStxosDisjoint ==
  \A o \in OutIds : ~(store.utxos[o].obj /\ store.stxos[o].obj)

\* a reorganisation was committed and left both spent and unspent outputs
C1_Witness ==
  /\ last.op = "submitBlock" /\ last.path = "fork" /\ last.ok
  /\ \E o \in OutIds : store.stxos[o].obj
  /\ \E o \in OutIds : store.utxos[o].obj

\* C2: for every non-coinbase transaction confirmed on the main chain, the
\* values of the outputs its inputs spend sum to at least the values of the
\* outputs it creates.
C2_InputsCoverOutputs ==
  \A t \in TxIds :
    store.transactions[t].obj => SpentValue(TxIns(t)) >= CreatedValue(TxOuts(t))

\* C3: for every block on the main chain at height h, its coinbase outputs sum
\* to at most the fees of its transactions plus blockReward(h); stated for the
\* blocks whose transactions each spend at least what they create.
C3_CoinbaseBound ==
  \A b \in BlockIds :
    (/\ store.blocks[b].obj
     /\ \A t \in BlockTxs(b) : SpentValue(TxIns(t)) >= CreatedValue(TxOuts(t)))
    => CreatedValue(TxOuts(100 + b))
         <= TrueFees(BlockTxs(b)) + getBlockReward(store.blocks[b].height)

\* no two inputs of the block's transactions spend the same output
SpendsOnce(b) ==
  \A t1, t2 \in BlockTxs(b) : \A i1 \in TxIns(t1) : \A i2 \in TxIns(t2) :
    InOutputId(i1) = InOutputId(i2) => i1 = i2

\* no two outputs of the block's transactions carry the same id
CreatesOnce(b) ==
  \A t1, t2 \in BlockTxs(b) \cup {100 + b} :
    t1 # t2 => TxOuts(t1) \cap TxOuts(t2) = {}

\* C4: applying a block as the new tip and then calling reverseBlock returns
\* blocks, transactions, utxos, stxos and inputs, with the per-owner id lists
\* and the tip and height entries, to exactly their contents before the
\* apply, and candidates holds the reversed block; stated for the blocks that
\* spend no output twice.
C4_ApplyThenReverse ==
  \A b \in feed.blocks :
    (ExtendsTip(b) /\ SpendsOnce(b)) =>
      \A r \in {FullApply(Working(store, mempool), Block(b),
                          store.tip.height + 1, "extension")} :
        r.ok =>
          \A back \in {reverseBlock(r.S)} :
            /\ ~back.exc
            /\ \A f \in StoreFields \ {"candidates"} : back[f] = store[f]
            /\ back.candidates
                 = [store.candidates EXCEPT
                      ![b] = [obj |-> TRUE, id |-> b, height |-> store.tip.height + 1]]

\* C5: a public call that returns ok = false leaves every persisted table as it
\* was before the call: the store transaction is committed only when the call
\* returns ok = true.
C5_CommitOnlyOnOk ==
  [][(last'.op # "none" /\ last'.exc = "none" /\ ~last'.ok) => store' = store]_vars

\* a submitBlock returned ok = false after its reorganisation had reversed a
\* block: a transaction the committed store holds as confirmed is back in the
\* mempool
C5_Witness ==
  /\ last.op = "submitBlock" /\ last.path = "fork" /\ last.exc = "none" /\ ~last.ok
  /\ \E t \in TxIds : store.transactions[t].obj /\ t \in DOMAIN mempool.txs

\* C6: whenever submitBlock returns ok = false the mempool is identical to its
\* state before the call; stated for the calls whose block has its parent in
\* candidates or at the tip.
C6_FailedSubmitKeepsMempool ==
  [][(/\ last'.op = "submitBlock" /\ last'.exc = "none" /\ ~last'.ok
      /\ \/ Get(store.candidates, BlockPrev(last'.arg), NoBlock).obj
         \/ BlockPrev(last'.arg) = store.tip.id)
       => mempool' = mempool]_vars

\* C7: after every submitBlock that returned ok = true and changed the main
\* chain, every transaction still in the mempool passes verifyTransaction
\* against the committed store.
C7_MempoolValidAfterTipChange ==
  (/\ BlockCallReturned(last)
   /\ last.ok
   /\ last.path \in {"genesis", "extension", "fork"})
  => \A t \in DOMAIN mempool.txs :
       verifyTransaction(Working(store, mempool), mempool.txs[t], FALSE).ok

\* a reorganisation was committed and the mempool still holds a transaction
C7_Witness ==
  /\ last.op = "submitBlock" /\ last.path = "fork" /\ last.ok
  /\ DOMAIN mempool.txs # {}

C9_LosingFork ==
  [][(/\ last'.op = "submitBlock" /\ last'.path = "save"
      /\ ConsultsBetter(store, Block(last'.arg)))
     => /\ last'.ok /\ ~last'.perm /\ last'.exc = "none"
        /\ mempool' = mempool
        /\ store' = [store EXCEPT !.candidates[last'.arg] =
                       [obj |-> TRUE, id |-> last'.arg,
                        height |-> getBlockDB(store, BlockPrev(last'.arg)).height + 1]]]_vars

\* a block whose parent is itself a candidate was stored at height 3
C9_Witness ==
  /\ last.op = "submitBlock" /\ last.path = "save" /\ last.arg = 5
  /\ store.candidates[4].obj
  /\ store.candidates[5].obj /\ store.candidates[5].height = 3

\* some transaction of the block the workers validate does not verify
SomeTxFails ==
  \E t \in BlockTxs(fanout.block) :
    ~verifyTransaction(Working(store, mempool), Tx(t), FALSE).ok

\* what C10 says of the call that is leaving the loop of lines 450-470
WorkersDecide ==
  fanout.pc = "done" =>
    /\ InThreadsVec(fanout) = {}
    /\ SomeTxFails => (~last'.ok /\ last'.perm /\ last'.exc = "none" /\ store' = store)
    /\ ~SomeTxFails => \A t \in BlockTxs(fanout.block) : fanout.workers[t] = "joined"

\* C10: during a full apply every transaction of the block is validated, and
\* if one of them fails submitBlock returns (false, true) with the store
\* unchanged, in every interleaving of the workers and only after every
\* worker it started is joined.
C10_WorkersDecide ==
  [][fanout'.pc # "crashed" /\ WorkersDecide]_vars

\* C10 for the calls in which hardware_concurrency() is not 0
C10_WhenThreadsPositive ==
  [][fanout.threads > 0 => (fanout'.pc # "crashed" /\ WorkersDecide)]_vars

\* a block was rejected after two of its workers had run side by side and the
\* one whose transaction spends an output that is already spent reported it
C10_Witness ==
  /\ fanout.pc = "done" /\ fanout.result = "rejected"
  /\ fanout.block = 13 /\ fanout.threads = 2
  /\ fanout.workers[2] = "joined" /\ fanout.workers[3] = "joined"

\* how many times an id occurs in a stored per-owner list
Occurs(seq, x) == Cardinality({k \in DOMAIN seq : seq[k] = x})

\* the per-owner lists of one table hold exactly the ids of the table's outputs
\* that carry the key, each once
ListsMirror(tbl, idx) ==
  \A k \in PubKeys : \A o \in OutIds :
    Occurs(idx[k], o) = IF tbl[o].obj /\ tbl[o].pk = k THEN 1 ELSE 0

\* C11: in every committed state and for every publicKey, utxos[publicKey]
\* holds exactly the ids of the outputs present in utxos whose data carries
\* that key, each once, and stxos[publicKey] likewise for stxos.
C11_OwnerListsMirror ==
  /\ ListsMirror(store.utxos, store.utxoIdx)
  /\ ListsMirror(store.stxos, store.stxoIdx)

\* C11 for the runs none of whose blocks spends an output twice or creates
\* an output id twice
C11_WhenBlocksSpendOnce ==
  (\A b \in feed.blocks : SpendsOnce(b) /\ CreatesOnce(b))
  => C11_OwnerListsMirror

\* a reorganisation was committed and both kinds of list are in use
C11_Witness ==
  /\ last.op = "submitBlock" /\ last.path = "fork" /\ last.ok
  /\ \E k \in PubKeys : store.utxoIdx[k] # <<>> /\ store.stxoIdx[k] # <<>>

\* C12: in every committed state every record in inputs refers to an output
\* that is present in stxos and absent from utxos.
C12_InputsReferToSpent ==
  \A i \in InputIds :
    store.inputs[i] =>
      store.stxos[InOutputId(i)].obj /\ ~store.utxos[InOutputId(i)].obj

\* C12 for the runs none of whose blocks spends an output twice
C12_WhenBlocksSpendOnce ==
  (\A b \in feed.blocks : SpendsOnce(b))
  => C12_InputsReferToSpent

\* a reorganisation was committed: the inputs of the reversed block are gone,
\* the output they spent is spent by the new chain
C12_Witness ==
  /\ last.op = "submitBlock" /\ last.path = "fork" /\ last.ok
  /\ ~store.inputs[1] /\ store.inputs[2]
  /\ store.candidates[2].obj

\* the threads that are inside a store transaction
InStoreTx ==
  {c \in Callers : calls.thr[c].pc \in {"begun", "ran", "returning"}}
    \cup (IF calls.handle = "open" THEN {HandleHolder} ELSE {})

\* C13: at most one thread at a time is inside a store transaction, and for
\* any interleaving of concurrent submitBlock and submitTransaction calls the
\* store and the mempool are those of executing the calls one after another in
\* the order in which they took the chain lock.
C13_CallsAreSerial ==
  /\ Cardinality(InStoreTx) <= 1
  /\ \A c \in InStoreTx : calls.owner = c
  /\ (\A c \in Callers : calls.thr[c].pc = "idle")
       => store = calls.serial.store /\ mempool = calls.serial.mempool

\* both callers made calls, one of them a block that moved the tip while the
\* other thread had a transaction to submit, and all of them returned
C13_Witness ==
  /\ calls.count = MaxCalls
  /\ \A c \in Callers : calls.thr[c].pc = "idle"
  /\ calls.thr[1].op = "submitBlock" /\ calls.thr[2].op = "submitTransaction"
  /\ store.tip.id # 1
  /\ DOMAIN mempool.txs # {}

\* what a run shows of a public submitBlock that ended as r: the committed
\* store, the mempool, the verdict and how the call ended
Outcome(r) ==
  [store |-> Commit(r),
   mempool |-> IF r.exc = "crash" THEN mempool ELSE r.S.mp,
   ok |-> r.ok, perm |-> r.perm, exc |-> r.exc]

\* C14: with a pure consensus adapter, two runs started from the same store
\* and mempool and fed the same submitBlock calls end with the same tip and
\* the same verdict for each call.  Two such runs agree up to a call, so they
\* differ only if one call has two outcomes from one state under one answer of
\* the adapter: every submitBlock has a single outcome.
C14_SameStreamSameTip ==
  status = "loaded" =>
    \A b \in feed.blocks : \A better \in BetterChoices(store, Block(b)) :
      \A g1, g2 \in GarbageChoices(store, Block(b), better) :
        Outcome(submitBlockTx(Working(store, mempool), Block(b), FALSE, better, g1))
          = Outcome(submitBlockTx(Working(store, mempool), Block(b), FALSE, better, g2))

\* a block that the adapter prefers arrives while its parent is a main-chain
\* block below the tip
C14_Witness ==
  /\ status = "loaded"
  /\ store.tip.id = 2
  /\ 4 \in feed.blocks /\ ~store.blocks[4].obj /\ ~store.candidates[4].obj

\* every check of a full apply passes for block b on the committed store:
\* its transactions and its coinbase verify, the coinbase is within fees plus
\* reward, consensus accepts the block
PassesAllChecks(b) ==
  /\ \A t \in BlockTxs(b) :
       verifyTransaction(Working(store, mempool), Tx(t), FALSE).ok
  /\ verifyTransaction(Working(store, mempool), Tx(100 + b), TRUE).ok
  /\ SumValues(OrderById(Block(b).cb.outs))
       <= AddU64(SumFees(Working(store, mempool), OrderById(Block(b).txs)),
                 getBlockReward(store.tip.height + 1))
  /\ ConsensusSubmitBlock(Block(b))

\* C15: when a block whose previousBlockId is the current tip passes all
\* checks, submitBlock returns (true, false) and afterwards the tip is that
\* block with height = old tip height + 1, the height index maps that height
\* to its id, the block is not in candidates, its coinbase and each of its
\* transactions are in transactions, and none of them is in the mempool.
C15_Extension ==
  [][(/\ last'.op = "submitBlock"
      /\ ExtendsTip(last'.arg)
      /\ PassesAllChecks(last'.arg))
     => LET b == last'.arg
            h == store.tip.height + 1
        IN /\ last'.ok /\ ~last'.perm /\ last'.exc = "none"
           /\ store'.tip = [obj |-> TRUE, id |-> b, height |-> h]
           /\ store'.blocks[b] = store'.tip
           /\ store'.heights[h] = b
           /\ ~store'.candidates[b].obj
           /\ \A t \in BlockTxs(b) \cup {100 + b} :
                /\ store'.transactions[t].obj
                /\ store'.transactions[t].block = b
                /\ t \notin DOMAIN mempool'.txs]_vars

\* block A3 extended the chain to height 3 and confirmed its transaction
C15_Witness ==
  /\ last.op = "submitBlock" /\ last.path = "extension" /\ last.ok /\ last.arg = 3
  /\ store.tip.id = 3 /\ store.tip.height = 3
  /\ store.transactions[3].obj

\* C16: a non-genesis block that is not in blocks and whose previousBlockId is
\* in neither blocks nor candidates is rejected with (false, true) at the
\* parent lookup, before consensus is consulted, and the store and the mempool
\* are unchanged: the block is not stored in candidates.
C16_DetachedRejected ==
  [][(/\ last'.op = "submitBlock"
      /\ ~store.blocks[last'.arg].obj
      /\ ~Get(store.blocks, BlockPrev(last'.arg), NoBlock).obj
      /\ ~Get(store.candidates, BlockPrev(last'.arg), NoBlock).obj)
     => /\ last'.path = "detached"
        /\ ~last'.ok /\ last'.perm /\ last'.exc = "none"
        /\ store' = store
        /\ mempool' = mempool]_vars

\* block F3 arrived before its parent F2 and was refused while the mempool
\* held a transaction
C16_Witness ==
  /\ last.op = "submitBlock" /\ last.path = "detached" /\ last.arg = 5
  /\ ~last.ok /\ last.perm
  /\ ~store.candidates[5].obj /\ ~store.candidates[4].obj /\ ~store.blocks[4].obj
  /\ DOMAIN mempool.txs # {}

\* the outputs a transaction consumes and the outputs it produces
ConsumedBy(tx) == {inp.outputId : inp \in tx.ins}

ProducedBy(tx) == {out.id : out \in tx.outs}

\* C17: Mempool insert returns false and leaves the transactions, the input
\* index, the output index and the byte total as they were when the
\* transaction is already present, one of its input ids is indexed, an output
\* it consumes is consumed or produced by a member, or an output it produces is
\* indexed; otherwise it returns true, adds the transaction with all its index
\* entries and adds its size to the byte total.
C17_InsertContract ==
  [][last'.op = "insert" =>
       LET tx == Tx(last'.arg)
           refused ==
             \/ tx.id \in DOMAIN mempool.txs
             \/ \E inp \in tx.ins : inp.id \in DOMAIN mempool.inputs
             \/ \E m \in MempoolMembers(mempool) :
                  ConsumedBy(tx) \cap (ConsumedBy(m) \cup ProducedBy(m)) # {}
             \/ \E out \in tx.outs : out.id \in DOMAIN mempool.outputs
       IN IF refused
          THEN ~last'.ok /\ mempool' = mempool
          ELSE /\ last'.ok
               /\ DOMAIN mempool'.txs = DOMAIN mempool.txs \cup {tx.id}
               /\ mempool'.txs[tx.id] = tx
               /\ \A k \in DOMAIN mempool.txs : mempool'.txs[k] = mempool.txs[k]
               /\ DOMAIN mempool'.inputs =
                    DOMAIN mempool.inputs \cup {inp.id : inp \in tx.ins}
               /\ \A inp \in tx.ins : mempool'.inputs[inp.id] = tx.id
               /\ \A k \in DOMAIN mempool.inputs : mempool'.inputs[k] = mempool.inputs[k]
               /\ DOMAIN mempool'.outputs =
                    DOMAIN mempool.outputs \cup ConsumedBy(tx) \cup ProducedBy(tx)
               /\ \A o \in ConsumedBy(tx) \cup ProducedBy(tx) :
                    mempool'.outputs[o] = tx.id
               /\ \A k \in DOMAIN mempool.outputs :
                    mempool'.outputs[k] = mempool.outputs[k]
               /\ mempool'.bytes = mempool.bytes + tx.size]_vars

\* two insertions were accepted and a third, of a transaction that consumes an
\* output one of the members consumes, was refused
C17_Witness ==
  /\ last.op = "insert" /\ last.arg = 5 /\ ~last.ok
  /\ DOMAIN mempool.txs = {3, 4}
  /\ mempool.bytes = TxSize(3) + TxSize(4)

RECURSIVE TotalSize(_)
TotalSize(T) ==
  IF T = {} THEN 0
  ELSE LET tx == CHOOSE x \in T : TRUE IN tx.size + TotalSize(T \ {tx})

\* the members whose id is at most k
MembersUpTo(mp, k) == {tx \in MempoolMembers(mp) : tx.id <= k}

\* C20: getTransactions returns the longest prefix of the mempool, in id order,
\* whose cumulative size is strictly below 3.9 * 1024 * 1024 bytes: it stops at
\* the first transaction that would reach the bound and takes nothing after it.
C20_LongestPrefix ==
  last.op = "getTransactions" =>
    /\ \E k \in {0} \cup DOMAIN mempool.txs : last.sel = MembersUpTo(mempool, k)
    /\ 10 * TotalSize(last.sel) < 39 * 1024 * 1024
    /\ \A k \in DOMAIN mempool.txs :
         (last.sel \subseteq MembersUpTo(mempool, k) /\ last.sel # MembersUpTo(mempool, k))
           => 10 * TotalSize(MembersUpTo(mempool, k)) >= 39 * 1024 * 1024

\* the selection stopped at a transaction that did not fit and left out a
\* later one that would have
C20_Witness ==
  /\ last.op = "getTransactions"
  /\ DOMAIN mempool.txs = {3, 4, 7}
  /\ last.sel = {Tx(3)}

\* C18: the public submitTransaction returns (true, false) exactly when
\* verifyTransaction accepts the transaction, the consensus submitTransaction
\* approves it and the mempool insert succeeds, and the transaction is then in
\* the mempool; it returns the validator's verdict when validation fails,
\* (false, true) when the consensus refuses and (false, false) on a mempool
\* conflict; nothing is committed to the store unless ok, and the mempool is
\* unchanged whenever ok is false.
C18_SubmitTransaction ==
  [][last'.op = "submitTransaction" =>
       LET tx == Tx(last'.arg)
           v == verifyTransaction(Working(store, mempool), tx, FALSE)
           approves == ConsensusSubmitTransaction(tx)
           inserts == MempoolInsertReturns(mempool, tx)
           verdict == [ok |-> last'.ok, perm |-> last'.perm]
       IN /\ last'.exc = "none"
          /\ verdict = VOk <=> (v.ok /\ approves /\ inserts)
          /\ last'.ok => /\ tx.id \in DOMAIN mempool'.txs
                         /\ mempool' = MempoolInsert(mempool, tx)
                         /\ mempool'.bytes = mempool.bytes + tx.size
          /\ ~v.ok => verdict = v
          /\ (v.ok /\ ~approves) => verdict = VFT
          /\ (v.ok /\ approves /\ ~inserts) => verdict = VFF
          /\ ~last'.ok => mempool' = mempool
          /\ store' = store]_vars

\* a transaction that passes verifyTransaction and the consensus was refused
\* by the mempool, which holds another transaction spending the same output
C18_Witness ==
  /\ last.op = "submitTransaction" /\ last.arg = 2
  /\ ~last.ok /\ ~last.perm
  /\ DOMAIN mempool.txs = {1}
  /\ verifyTransaction(Working(store, mempool), Tx(2), FALSE) = VOk

RECURSIVE FirstInputFailure(_, _, _)
\* the verdict of the first input, in id order, whose check fails: its output
\* is not unspent, or its output has a public key and no contract and the
\* signature is missing or does not verify
FirstInputFailure(S, tx, seq) ==
  IF seq = <<>> THEN VOk
  ELSE LET out == Get(S.utxos, Head(seq).outputId, NoOutput)
       IN IF ~out.obj THEN VFF
          ELSE IF out.pk # 0 /\ ~out.ct
                    /\ (Head(seq).sig = 0 \/ ~SigVerifies(Head(seq), out, tx))
               THEN VFT
          ELSE FirstInputFailure(S, tx, Tail(seq))

RECURSIVE TrueTotal(_)
\* the sum of the values of a set of outputs, unwrapped
TrueTotal(outs) ==
  IF outs = {} THEN 0
  ELSE LET o == CHOOSE x \in outs : TRUE IN o.value + TrueTotal(outs \ {o})

\* the unspent outputs that the inputs of a transaction refer to
SpentOutputs(S, tx) ==
  {Get(S.utxos, inp.outputId, NoOutput) : inp \in tx.ins}

\* the verdict of the first failing check, in the order of the checks
FirstFailingCheck(S, tx, coinbaseTx) ==
  IF Get(S.transactions, tx.id, NoTx).obj THEN VFF
  ELSE IF \E out \in tx.outs :
            Get(S.utxos, out.id, NoOutput).obj \/ Get(S.stxos, out.id, NoOutput).obj
       THEN VFF
  ELSE IF FirstInputFailure(S, tx, OrderById(tx.ins)) # VOk
       THEN FirstInputFailure(S, tx, OrderById(tx.ins))
  ELSE IF ~coinbaseTx /\ TrueTotal(tx.outs) > TrueTotal(SpentOutputs(S, tx)) THEN VFT
  ELSE IF ~coinbaseTx
            /\ FeeTooLow(TrueTotal(SpentOutputs(S, tx)) - TrueTotal(tx.outs), tx)
       THEN VFT
  ELSE IF ~ScriptValid(tx) \/ ~ConsensusVerifyTransaction(tx) THEN VFT
  ELSE VOk

\* the transactions that can be handed to verifyTransaction, with the flag
\* they are verified under
Verifiable ==
  {[tx |-> Tx(t), cb |-> FALSE] : t \in feed.txs}
    \cup {[tx |-> Tx(100 + b), cb |-> TRUE] : b \in feed.blocks}

\* C19: the verdict of verifyTransaction is that of the first failing check in
\* the fixed order (known transaction id, known produced output id, then per
\* input a missing unspent output or a missing or invalid signature, then for a
\* non-coinbase transaction an output total above the input total or a fee
\* below half the size fee, then the contract evaluator and the consensus),
\* and (true, false) when no check fails; it is never (true, true).
C19_FirstFailingCheck ==
  status = "loaded" =>
    \A x \in Verifiable :
      LET v == verifyTransaction(Working(store, mempool), x.tx, x.cb)
      IN /\ v = FirstFailingCheck(Working(store, mempool), x.tx, x.cb)
         /\ ~(v.ok /\ v.perm)

\* the same for the transactions whose output total is below 2^64
C19_WhenTotalsFit ==
  status = "loaded" =>
    \A x \in Verifiable :
      TrueTotal(x.tx.outs) < Uint64Units =>
        LET v == verifyTransaction(Working(store, mempool), x.tx, x.cb)
        IN /\ v = FirstFailingCheck(Working(store, mempool), x.tx, x.cb)
           /\ ~(v.ok /\ v.perm)

\* a transaction whose outputs are worth more than its input is submitted
\* while that input is unspent, and is accepted
C19_Witness ==
  /\ last.op = "submitTransaction" /\ last.arg = 4 /\ last.ok
  /\ TrueTotal(Tx(4).outs) > TrueTotal(SpentOutputs(Working(store, mempool), Tx(4)))
  /\ \A inp \in Tx(4).ins : Get(store.utxos, inp.outputId, NoOutput).obj

\* the outputs that the transactions of a block create
CreatedBy(b) == UNION {TxOuts(t) : t \in BlockTxs(b) \cup {100 + b}}

\* the output is stored, in utxos or in stxos
Stored(st, o) == st.utxos[o].obj \/ st.stxos[o].obj

C23_CallsReturn ==
  last.op \in {"submitBlock", "submitTransaction"} => last.exc = "none"

\* the same for the calls that do not read the top of an empty block stack
C23_WhenStackNotEmpty ==
  [][(last'.op \in {"submitBlock", "submitTransaction"} /\ last'.exc # "none") =>
       /\ last'.op = "submitBlock"
       /\ ConsultsBetter(store, Block(last'.arg))
       /\ ReadsEmptyStack(store, Block(last'.arg))]_vars

\* a submitBlock that reorganised ended in NotFoundException
C23_Witness ==
  /\ last.op = "submitBlock" /\ last.path = "fork"
  /\ last.exc = "notfound"

ConfirmedInputs ==
  {<<t, i>> : t \in {t \in AllTxIds : store.transactions[t].obj}, i \in InputIds}
    \cap {<<t, i>> \in AllTxIds \X InputIds : i \in TxIns(t)}

\* C27: an output is spent at most once on the main chain: no two inputs of
\* the confirmed transactions, of one transaction, of one block or of
\* different blocks, reference the same output id.
C27_SpentOnce ==
  \A x, y \in ConfirmedInputs : x # y => InOutputId(x[2]) # InOutputId(y[2])

\* the same in the runs whose blocks each spend an output once
C27_WhenBlocksSpendOnce ==
  (\A b \in feed.blocks : SpendsOnce(b)) => C27_SpentOnce

\* block 7, whose two transactions spend the same output, is the tip
C27_Witness ==
  /\ store.tip.id = 7
  /\ store.transactions[1].obj /\ store.transactions[2].obj
  /\ InOutputId(1) = InOutputId(2)

RECURSIVE ChainFrom(_)
\* the ids reached by following previousBlockId from a block
ChainFrom(id) == IF id \notin BlockIds THEN {} ELSE {id} \cup ChainFrom(BlockPrev(id))

\* the main chain of a store is one linear chain
Linear(st) ==
  LET main == {b \in BlockIds : st.blocks[b].obj}
  IN /\ st.tip.obj
     /\ main = ChainFrom(st.tip.id)
     /\ \A b \in main :
          /\ st.blocks[b].height >= 1
          /\ st.blocks[b].height = 1 => BlockPrev(b) = 0
          /\ st.blocks[b].height > 1 =>
               /\ BlockPrev(b) \in main
               /\ st.blocks[BlockPrev(b)].height = st.blocks[b].height - 1
     /\ \A h \in Heights :
          IF h <= st.tip.height
          THEN /\ st.heights[h] \in main
               /\ st.blocks[st.heights[h]].height = h
               /\ \A b \in main : st.blocks[b].height = h => b = st.heights[h]
          ELSE st.heights[h] = 0

RECURSIVE RewardsUpTo(_)
\* the sum of getBlockReward(h) over h = 1..height
RewardsUpTo(height) ==
  IF height = 0 THEN 0 ELSE getBlockReward(height) + RewardsUpTo(height - 1)

\* the total value of the outputs in utxos
UnspentValue(st) == TrueTotal({st.utxos[o] : o \in {o \in OutIds : st.utxos[o].obj}})

\* C28: money is only created by block rewards: the total value of the outputs
\* in utxos is at most the sum of the block rewards of the heights 1 to
\* tip.height, in every committed state.
C28_RewardsBoundSupply ==
  store.tip.obj => UnspentValue(store) <= RewardsUpTo(store.tip.height)

\* the same in the runs whose blocks spend and create each output once and
\* whose transactions create less than 2^64, for the calls that do not read
\* the top of an empty block stack
C28_WhenSumsFit ==
  [][(/\ \A b \in feed.blocks :
           /\ SpendsOnce(b) /\ CreatesOnce(b)
           /\ \A t \in BlockTxs(b) \cup {100 + b} : CreatedValue(TxOuts(t)) < Uint64Units
      /\ Linear(store) /\ C28_RewardsBoundSupply
      /\ ~(last'.op = "submitBlock" /\ ConsultsBetter(store, Block(last'.arg))
             /\ ReadsEmptyStack(store, Block(last'.arg))))
       => C28_RewardsBoundSupply']_vars

\* block 8, whose transaction creates 2^64 + 2^60 from an input of 5 * 2^60,
\* is the tip at height 2
C28_Witness ==
  /\ store.tip.id = 8 /\ store.tip.height = 2
  /\ store.utxos[4].obj /\ store.utxos[5].obj

\* C29: reorgChain never reads the top of an empty block stack: whenever
\* submitBlock forks, the parent id passed to reorgChain is in candidates.
C29_ForkParentIsCandidate ==
  [][(last'.op = "submitBlock" /\ last'.path = "fork") =>
       store.candidates[BlockPrev(last'.arg)].obj]_vars

\* a submitBlock that forked read the empty stack and the process died
C29_Witness ==
  /\ last.op = "submitBlock" /\ last.path = "fork" /\ last.exc = "crash"
  /\ status = "crashed"
  /\ store.blocks[BlockPrev(last.arg)].obj

\* C30: in every committed state after genesis the main chain is one linear
\* chain: the ids in blocks are the blocks reached from the tip down to
\* genesis, a block at height h > 1 has its previous block in blocks at height
\* h - 1, and the height index maps each h in 1..tip.height to the one block
\* of that height and holds nothing above tip.height.
C30_LinearChain == status # "new" => Linear(store)

\* the same for the calls that do not read the top of an empty block stack
C30_WhenStackNotEmpty ==
  [][(Linear(store)
        /\ ~(last'.op = "submitBlock" /\ ConsultsBetter(store, Block(last'.arg))
               /\ ReadsEmptyStack(store, Block(last'.arg))))
       => Linear(store')]_vars

\* block 4, whose parent is genesis, was applied on top of block 2
C30_Witness ==
  /\ last.op = "submitBlock" /\ last.arg = 4 /\ last.ok
  /\ store.tip.id = 4 /\ store.tip.height = 3
  /\ store.blocks[2].obj /\ BlockPrev(4) = 1

\* C21: every coinbase transaction confirmed on the main chain has an empty
\* input set: submitBlock never confirms a block whose coinbase carries inputs.
C21_CoinbaseHasNoInputs ==
  \A b \in BlockIds : store.blocks[b].obj => Block(b).cb.ins = {}

\* block 15, whose coinbase spends the reward output of genesis, is the tip
C21_Witness ==
  /\ store.tip.id = 15
  /\ store.transactions[115].obj /\ store.transactions[115].cb
  /\ Block(15).cb.ins # {}
  /\ store.stxos[101].obj

RECURSIVE TrueFeeTotal(_, _)
\* the sum of calculateTransactionFee over a set of transactions
TrueFeeTotal(S, T) ==
  IF T = {} THEN 0
  ELSE LET tx == CHOOSE x \in T : TRUE
       IN calculateTransactionFee(S, tx) + TrueFeeTotal(S, T \ {tx})

\* what is stated of the block g that generateVerifyingBlock returns on the
\* store st and the mempool mp
GeneratedAsStated(st, mp, g) ==
  LET S == Working(st, mp)
  IN /\ g.prev = (IF st.tip.obj THEN st.tip.id ELSE 0)
     /\ g.height = (IF st.tip.obj THEN st.tip.height + 1 ELSE 1)
     /\ g.txs = getTransactions(mp)
     /\ g.cb.ins = {}
     /\ Cardinality(g.cb.outs) = 1
     /\ \A out \in g.cb.outs :
          out.value = getBlockReward(g.height) + TrueFeeTotal(S, g.txs)
     /\ ~(SumValues(OrderById(g.cb.outs))
            > AddU64(SumFees(S, OrderById(g.txs)), getBlockReward(g.height)))

\* C26: generateVerifyingBlock returns a block whose previousBlockId is the
\* tip's id and whose height is tip.height + 1 (height 1 with no tip), whose
\* transactions are the mempool selection, and whose coinbase has no inputs and
\* one output worth blockReward(height) plus the sum of calculateTransactionFee
\* over the selection, so that the block satisfies the coinbase bound when
\* submitted in the same state; the call changes neither store nor mempool.
C26_GeneratedBlock ==
  [][last'.op = "generateVerifyingBlock" =>
       /\ GeneratedAsStated(store, mempool, last'.gen)
       /\ store' = store
       /\ mempool' = mempool]_vars

\* the same when every transaction of the mempool verifies against the store
C26_WhenMempoolValid ==
  [][(/\ last'.op = "generateVerifyingBlock"
      /\ \A tx \in MempoolMembers(mempool) :
           verifyTransaction(Working(store, mempool), tx, FALSE).ok)
       => /\ GeneratedAsStated(store, mempool, last'.gen)
          /\ store' = store
          /\ mempool' = mempool]_vars

\* a block was generated on a tip above genesis from a mempool that holds a
\* transaction paying a fee
C26_Witness ==
  /\ last.op = "generateVerifyingBlock"
  /\ last.gen.height = 3 /\ last.gen.prev = store.tip.id
  /\ last.gen.txs # {}
  /\ \E out \in last.gen.cb.outs : out.value > getBlockReward(3)


\* what loadChain leaves when no tip was stored: the block of the genesis file
\* when it imports, else the generated block, written to the file
Bootstrapped ==
  LET imported == genesis.file # 0 /\ ImportFile(mempool, genesis).ok
      expected == IF imported THEN genesis.file ELSE GeneratedGenesis
  IN /\ last'.exc = "none"
     /\ status' = "loaded"
     /\ store'.tip.obj
     /\ store'.tip.id = expected
     /\ store'.tip.height = 1
     /\ genesis'.file = expected
     /\ genesis'.id = expected

\* what loadChain leaves when a tip was stored
Reloaded ==
  /\ last'.exc = "none"
  /\ status' = "loaded"
  /\ store' = store
  /\ genesis' = genesis

\* C25: a loadChain on a store with no tip ends with a genesis block, the one
\* of the genesis file or a generated one written to the file, as the tip at
\* height 1 and genesisBlockId its id; a later loadChain leaves every table and
\* the file unchanged and sets the same genesisBlockId
C25_LoadChain ==
  [][last'.op = "loadChain" => IF store.tip.obj THEN Reloaded ELSE Bootstrapped]_vars

\* a later loadChain ends in NotFoundException: block 7, whose transactions
\* spend the output of the genesis coinbase twice, is the tip, and
\* getBlockByHeight(1) finds no document of that output
C25_Witness ==
  /\ last.op = "loadChain"
  /\ last.path = "reload"
  /\ last.exc = "notfound"
  /\ store.tip.id = 7
  /\ ~getOutput(store, 101).obj

\* a genesis block was generated and written, and a later loadChain found it
C25_GeneratedAndReloaded ==
  /\ last.op = "loadChain"
  /\ last.path = "reload"
  /\ last.exc = "none"
  /\ genesis = [file |-> GeneratedGenesis, id |-> GeneratedGenesis]
  /\ store.tip.id = GeneratedGenesis

\* the same in the runs whose blocks each spend an output once
C25_WhenBlocksSpendOnce ==
  [][(\A b \in feed.blocks : SpendsOnce(b)) /\ last'.op = "loadChain"
       => IF store.tip.obj THEN Reloaded ELSE Bootstrapped]_vars

RECURSIVE ForkPoint(_, _)
\* where following previousBlockId through candidates from id ends
ForkPoint(st, id) ==
  IF id \in BlockIds /\ st.candidates[id].obj THEN ForkPoint(st, BlockPrev(id))
  ELSE id

\* every block in candidates hangs from the main chain
Connected(st) ==
  \A b \in BlockIds :
    st.candidates[b].obj =>
      /\ BlockPrev(b) \in BlockIds
      /\ st.blocks[BlockPrev(b)].obj \/ st.candidates[BlockPrev(b)].obj
      /\ ForkPoint(st, b) \in BlockIds
      /\ st.blocks[ForkPoint(st, b)].obj
      /\ st.blocks[ForkPoint(st, b)].height <= st.tip.height

\* the fork point reorgChain computes from the parent id it is given is a block
\* of the main chain at or below the tip
ForkPointOnMain(st, newTipId) ==
  /\ CandidateChain(st, newTipId) # <<>>
  /\ ForkPoint(st, newTipId) \in BlockIds
  /\ st.blocks[ForkPoint(st, newTipId)].obj
  /\ st.blocks[ForkPoint(st, newTipId)].height <= st.tip.height

\* C31: every block stored in candidates is connected to the main chain: its
\* previousBlockId is in blocks or in candidates and following previousBlockId
\* through candidates ends at a block in blocks, so the fork point reorgChain
\* computes is always a main-chain block at or below the tip.
C31_CandidatesConnected ==
  [][/\ Connected(store')
     /\ (last'.op = "submitBlock" /\ last'.path = "fork")
          => ForkPointOnMain(store, BlockPrev(last'.arg))]_vars

\* the same for the calls that do not read the top of an empty block stack,
\* made on a linear chain with connected candidates
C31_WhenStackNotEmpty ==
  [][(/\ Connected(store)
      /\ Linear(store)
      /\ ~(last'.op = "submitBlock" /\ ConsultsBetter(store, Block(last'.arg))
             /\ ReadsEmptyStack(store, Block(last'.arg))))
       => /\ Connected(store')
          /\ (last'.op = "submitBlock" /\ last'.path = "fork")
               => ForkPointOnMain(store, BlockPrev(last'.arg))]_vars

\* after submitBlock calls that read the empty stack, block 6 is a candidate
\* whose parent, block 4, is in blocks above the tip
C31_Witness ==
  /\ store.candidates[6].obj
  /\ store.blocks[4].obj
  /\ store.blocks[4].height > store.tip.height
  /\ ~Connected(store)

\* the output ids a member consumes or produces
TouchedBy(tx) == ConsumedBy(tx) \cup ProducedBy(tx)

\* the indexes of mp hold what its members hold, and nothing else
Mirrors(mp) ==
  LET members == MempoolMembers(mp)
  IN /\ \A k \in DOMAIN mp.txs : mp.txs[k].id = k
     /\ DOMAIN mp.inputs = UNION {{inp.id : inp \in tx.ins} : tx \in members}
     /\ \A tx \in members : \A inp \in tx.ins : mp.inputs[inp.id] = tx.id
     /\ DOMAIN mp.outputs = UNION {TouchedBy(tx) : tx \in members}
     /\ \A tx \in members : \A o \in TouchedBy(tx) : mp.outputs[o] = tx.id
     /\ \A a, b \in members : a # b => TouchedBy(a) \cap TouchedBy(b) = {}
     /\ mp.bytes = TotalSize(members)

\* C32: after any sequence of Mempool insert, remove and rescanMempool calls
\* the input index holds precisely the input ids of the members, the output
\* index precisely the output ids they consume or produce, each mapped to the
\* owning member, no two members consume or produce the same output id, and
\* bytes is the sum of the members' sizes; a remove of an absent transaction
\* changes nothing.
C32_IndexesMirrorMembers ==
  [][/\ Mirrors(mempool')
     /\ (last'.op = "remove" /\ last'.arg \notin DOMAIN mempool.txs)
          => mempool' = mempool]_vars

\* a transaction was removed from a mempool that keeps two members, one of
\* them with two inputs that consume the same output
C32_Witness ==
  /\ last.op = "remove"
  /\ last.arg \notin DOMAIN mempool.txs
  /\ 4 \in DOMAIN mempool.txs
  /\ Cardinality(DOMAIN mempool.txs) >= 2
  /\ mempool.outputs[InOutputId(4)] = 4

====
